---- MODULE Spec2Model ----
(***************************************************************************)
(* Webhook ingestion (WebhookProcessingService), thread assignment         *)
(* (EmailThreadService) and the detached actionable extraction             *)
(* (process_actionables_detached / AgentService) of postmark-email-agents. *)
(*                                                                         *)
(* The relational store is PostgreSQL at READ COMMITTED: a statement sees  *)
(* the committed rows and the rows its own transaction wrote; an INSERT or *)
(* UPDATE that meets an uncommitted write of another transaction on the    *)
(* same unique key or row waits until that transaction ends.               *)
(*                                                                         *)
(* Serial primary keys are abstracted to the index of the webhook call     *)
(* that inserts the row: every call inserts at most one RawEmail, one      *)
(* Email and one EmailThread, so these ids are unique as the sequence      *)
(* values are.  Likewise the extraction task spawned by call c is run[c].  *)
(***************************************************************************)
EXTENDS Integers, FiniteSets, Sequences, TLC

\* ---------------------------------------------------------------- bounds
\* Webhook calls in the full system (ingestion and extraction tasks).
NumCalls == 2

\* Webhook calls when only the ingestion pipeline is explored.
NumIngestCalls == 3

\* Webhook calls when subjects and participants are explored in full.
NumThreadCalls == 2

\* Reply/forward prefixes in front of a subject.
MaxPrefixes == 2

\* Headers in the Headers list of a payload.
MaxHeaders == 3

\* Addresses in the ToFull list of a payload.
MaxTo == 2

\* Addresses in the CcFull list and in the BccFull list of a payload.
MaxCopies == 1

\* Largest page number, page size and row count of a list request.
MaxPage == 3

MaxLimit == 3

MaxItems == 6

\* Webhook calls of the behaviours that follow replies to their parents.
NumReplyCalls == 2

\* create_event tool calls of a behaviour and attendees of one event.
NumToolCalls == 2
MaxAttendees == 2

\* Seconds the clock of the rate limiter runs for.
MaxTime == 5

\* RateLimiter(max_requests, window_seconds), scaled down from the
\* configured 1000 requests per 3600 seconds.
MaxRequests == 2
WindowSeconds == 2

\* Webhook calls of the behaviours that follow the owning user.
NumUserCalls == 2

\* The X-API-Key values of the requests.
ApiKeys == {"k1", "k2"}

\* ------------------------------------------------------- payload domains
Recipients == {"u1", "u2"}

NoPayload == [mid |-> 0, ident |-> 0, key |-> 0, rcpt |-> "-", parent |-> 0]

Agents == {"calendar", "notes", "shopping"}

\* Display name used by process_actionables_detached for each slot.
DomainName(a) ==
  CASE a = "calendar" -> "Calendar"
    [] a = "notes"    -> "Notes"
    [] a = "shopping" -> "Shopping"

VARIABLES
  users,    \* committed User rows (by lower-cased address)
  raws,     \* committed RawEmail rows: id -> processing_status
  emails,   \* committed Email rows: id -> row
  threads,  \* committed EmailThread rows: id -> row
  call,     \* per webhook call: position, payload, session state, result
  run,      \* per detached extraction task: position, agent outcomes
  listing,  \* the list-emails request in progress and its response
  scan,     \* a header list and the identifier extracted from it
  calendar, \* calendar tables and the create_event tool call in progress
  limiter,  \* the clock and the RateLimiter's requests per API key
  accounts  \* committed User rows

vars == <<users, raws, emails, threads, call, run, listing, scan,
          calendar, limiter, accounts>>

\* The webhook calls of the behaviour, numbered in arrival order.
Calls == DOMAIN call

SetMax(S) == CHOOSE x \in S : \A y \in S : y <= x

\* MessageIDs, header identifiers and thread keys are opaque strings of
\* which only equality is ever tested.  They are numbered in order of
\* first appearance: a call either repeats a value an earlier call
\* carried or brings the next fresh one.
Arrived == {c \in Calls : call[c].p # NoPayload}

Known(f) == {call[c].p[f] : c \in Arrived}

Choices(f) == Known(f) \cup {IF Known(f) = {} THEN 1 ELSE SetMax(Known(f)) + 1}

\* A schema-valid webhook payload, reduced to the fields the pipeline
\* branches on: MessageID, the identifier derived from the headers, the
\* thread key derived from subject and participants, OriginalRecipient.
\* Users are interchangeable: the first call is for "u1".
RecipientChoices == IF Known("rcpt") = {} THEN {"u1"} ELSE Recipients

Payloads ==
  [mid : Choices("mid"), ident : Choices("ident"), key : Choices("key"),
   rcpt : RecipientChoices, parent : {0}]

\* ------------------------------------------------------------ call state
IdleCall ==
  [pc        |-> "idle",
   p         |-> NoPayload,
   sessionOk |-> TRUE,    \* FALSE once a flush failed: the session needs rollback()
   matched   |-> {},      \* rows the duplicate check's query returned
   sameMid   |-> {},      \* Emails stored at the check with this MessageID
   sameIdent |-> {},      \* Emails stored at the check with this identifier
   dup       |-> 0,       \* id of the existing Email returned by the duplicate check
   parent_id |-> 0,       \* what get_parent_email_id returned (0 = None)
   txEmail   |-> FALSE,   \* own Email INSERT flushed, not committed
   txThread  |-> FALSE,   \* own EmailThread INSERT flushed, not committed
   txUpd     |-> FALSE,   \* own UPDATE of the thread row flushed, not committed
   pending   |-> {},      \* child rows added to the session, written at commit
   thr       |-> 0,       \* id of the thread object held by the session
   cnt       |-> 0,       \* thread.email_count of that object
   first     |-> 0,       \* thread.first_email_id of that object (0 = NULL)
   last      |-> 0,       \* thread.last_email_id of that object (0 = NULL)
   pos       |-> 0,       \* email.thread_position
   outcome   |-> "none",  \* "returned" | "raised"
   error     |-> "-",     \* the exception that a raising call propagates
   res_email |-> 0,       \* result["email_id"]
   res_mid   |-> 0,       \* result["message_id"]
   res_dup   |-> FALSE]   \* result["duplicate"] = "true"

IdleRun ==
  [pc      |-> "none",
   email   |-> 0,
   agent   |-> [a \in Agents |-> "pending"],
   orch    |-> "ok",
   results |-> <<>>,
   content |-> "none",   \* what get_email_thread_content returned
   messages |-> {},      \* the Emails whose text that content holds
   lost    |-> FALSE]    \* a status update of this task failed

\* No list request has been made.
NoListing ==
  [pc |-> "none", via |-> "-", sort_by |-> "-", sort_order |-> "-",
   page |-> 0, limit |-> 0,
   sort_column |-> "-", total_count |-> 0, error |-> "-", pagination |-> <<>>]

\* No header list is being scanned.
NoScan == [pc |-> "none", service |-> "-", headers |-> <<>>, identifier |-> <<>>]

\* Empty calendar tables and no tool call.  data is the CreateEventModel
\* the tool receives: the attendees, whether an organizer is given, the
\* run's email_id, and the write of the call that the database rejects
\* ("none" when all succeed).
NoCalendar ==
  [pc |-> "none",
   data |-> [email_id |-> 0, attendees |-> <<>>, organizer |-> FALSE,
             fails |-> "none"],
   events |-> {}, attendees |-> {},
   calls |-> 0, outcome |-> "-", error |-> "-"]

\* RateLimiter.__init__ at time 0: no request of any key is recorded.
\* admitted counts, per key and second, the requests is_allowed let pass.
NoLimiter ==
  [now |-> 0,
   requests |-> [k \in ApiKeys |-> <<>>],
   admitted |-> [k \in ApiKeys |-> [t \in 0..MaxTime |-> 0]],
   key |-> "-", allowed |-> FALSE]

\* The transaction of call c is open and has not ended.
InFlight(c) ==
  call[c].pc \in {"get_thread", "insert_thread", "max_position",
                  "flush_thread", "commit"}

Init ==
  /\ users = {}
  /\ raws = <<>>
  /\ emails = <<>>
  /\ threads = <<>>
  /\ call = [c \in 1..NumCalls |-> IdleCall]
  /\ run = [c \in 1..NumCalls |-> IdleRun]
  /\ listing = NoListing
  /\ scan = NoScan
  /\ calendar = NoCalendar
  /\ limiter = NoLimiter
  /\ accounts = {}

InitIngest ==
  /\ users = {}
  /\ raws = <<>>
  /\ emails = <<>>
  /\ threads = <<>>
  /\ call = [c \in 1..NumIngestCalls |-> IdleCall]
  /\ run = [c \in 1..NumIngestCalls |-> IdleRun]
  /\ listing = NoListing
  /\ scan = NoScan
  /\ calendar = NoCalendar
  /\ limiter = NoLimiter
  /\ accounts = {}


\* ------------------------------------------------ schema (models/db.py)
\* Email.message_id and Email.email_identifier are both declared
\* unique=True: two rows conflict when either column is equal.
EmailUniqueConflict_MidOnly(a, b) == a.mid = b.mid

EmailUniqueConflict(a, b) == a.mid = b.mid \/ a.ident = b.ident

\* EmailThread.thread_id (the key) is declared unique=True.
ThreadUniqueConflict(k1, k2) == k1 = k2

\* -------------------------------------------- WebhookProcessingService
\* check_duplicate_email: WHERE message_id = :m OR email_identifier = :i,
\* evaluated on the committed rows.
DuplicateRows_MidOnly(p) == {e \in DOMAIN emails : emails[e].mid = p.mid}

DuplicateRows(p) ==
  {e \in DOMAIN emails : emails[e].mid = p.mid \/ emails[e].ident = p.ident}

\* The result dict built at the end of process_postmark_webhook.  The
\* same literal is returned whether process_webhook_email inserted a row
\* or handed back an existing one.
WebhookResult(eid) ==
  [email_id |-> eid, message_id |-> emails[eid].mid, duplicate |-> FALSE]

\* validate_webhook_request on a payload that does not fit
\* PostmarkWebhookRequest: the ValueError is raised inside the try block
\* before raw_email is bound, so the except clause only re-raises.
RejectInvalid_SavesRaw(c) ==
  /\ call[c].pc = "idle"
  /\ \A d \in Calls : d < c => call[d].pc # "idle"
  /\ raws' = raws @@ (c :> "FAILED")
  /\ call' = [call EXCEPT ![c].pc = "done", ![c].outcome = "raised",
                          ![c].error = "ValueError"]
  /\ UNCHANGED <<users, emails, threads, run, listing, scan,
               calendar, limiter, accounts>>

RejectInvalid(c) ==
  /\ call[c].pc = "idle"
  /\ \A d \in Calls : d < c => call[d].pc # "idle"
  /\ call' = [call EXCEPT ![c].pc = "done", ![c].outcome = "raised",
                          ![c].error = "ValueError"]
  /\ UNCHANGED <<users, raws, emails, threads, run, listing, scan,
               calendar, limiter, accounts>>

\* validate_webhook_request, then process_user_from_webhook: the owning
\* user is looked up by address and created when unseen (own session,
\* committed before the raw payload is saved).
ResolveUser(c) ==
  /\ call[c].pc = "idle"
  /\ \A d \in Calls : d < c => call[d].pc # "idle"
  /\ \E p \in Payloads :
       /\ users' = users \cup {p.rcpt}
       /\ call' = [call EXCEPT ![c].pc = "save_raw", ![c].p = p]
  /\ UNCHANGED <<raws, emails, threads, run, listing, scan,
               calendar, limiter, accounts>>

\* save_raw_email: INSERT RawEmail(PENDING); commit.
SaveRaw_AfterCheck(c) ==
  /\ call[c].pc = "save_raw"
  /\ call' = [call EXCEPT ![c].pc = "check_duplicate"]
  /\ UNCHANGED <<users, raws, emails, threads, run, listing, scan,
               calendar, limiter, accounts>>

SaveRaw(c) ==
  /\ call[c].pc = "save_raw"
  /\ raws' = raws @@ (c :> "PENDING")
  /\ call' = [call EXCEPT ![c].pc = "check_duplicate"]
  /\ UNCHANGED <<users, emails, threads, run, listing, scan,
               calendar, limiter, accounts>>

\* extract_parent_email_identifier: the value of the first In-Reply-To or
\* References header, 0 when the payload has none.
ExtractParentEmailIdentifier(p) == p.parent

\* get_parent_email_id: the id of the stored Email whose email_identifier
\* is the parent identifier, None (0) without an identifier or a row.
GetParentEmailId(parent_identifier) ==
  IF parent_identifier = 0 THEN 0
  ELSE IF \E e \in DOMAIN emails : emails[e].ident = parent_identifier
    THEN CHOOSE e \in DOMAIN emails : emails[e].ident = parent_identifier
    ELSE 0

\* process_webhook_email up to the duplicate check: the parent's id is
\* looked up once, here.  scalar_one_or_none
\* raises MultipleResultsFound when two rows match; one row is returned
\* to process_postmark_webhook as if it had just been processed.
CheckDuplicate(c) ==
  /\ call[c].pc = "check_duplicate"
  /\ LET m == DuplicateRows(call[c].p) IN
       call' = [call EXCEPT
         ![c].matched = m,
         ![c].sameMid = {e \in DOMAIN emails : emails[e].mid = call[c].p.mid},
         ![c].sameIdent = {e \in DOMAIN emails : emails[e].ident = call[c].p.ident},
         ![c].dup = IF Cardinality(m) = 1 THEN CHOOSE e \in m : TRUE ELSE 0,
         ![c].parent_id =
           GetParentEmailId(ExtractParentEmailIdentifier(call[c].p)),
         ![c].error = IF Cardinality(m) > 1 THEN "MultipleResultsFound" ELSE @,
         ![c].pc = IF Cardinality(m) > 1 THEN "except"
                   ELSE IF Cardinality(m) = 1 THEN "finish"
                   ELSE "insert_email"]
  /\ UNCHANGED <<users, raws, emails, threads, run, listing, scan,
               calendar, limiter, accounts>>

\* Another open transaction holds an uncommitted Email row that conflicts
\* with payload p on a unique column: the INSERT waits for it.
EmailInsertBlocked(c, p) ==
  \E d \in Calls \ {c} :
    InFlight(d) /\ call[d].txEmail /\ EmailUniqueConflict(call[d].p, p)

\* db.add(new_email); flush().  A conflict with a committed row raises
\* IntegrityError out of process_webhook_email; the failed flush rolls the
\* transaction back and leaves the session unusable until rollback().
\* After the flush save_recipients adds the recipient rows to the session.
InsertEmail(c) ==
  /\ call[c].pc = "insert_email"
  /\ ~EmailInsertBlocked(c, call[c].p)
  /\ IF \E e \in DOMAIN emails : EmailUniqueConflict(emails[e], call[c].p)
       THEN call' = [call EXCEPT ![c].pc = "except", ![c].sessionOk = FALSE,
                                 ![c].error = "IntegrityError"]
       ELSE call' = [call EXCEPT ![c].pc = "get_thread", ![c].txEmail = TRUE,
                                 ![c].pending = {"recipients"}]
  /\ UNCHANGED <<users, raws, emails, threads, run, listing, scan,
               calendar, limiter, accounts>>

\* ------------------------------------------------- EmailThreadService
\* Strings are sequences of tokens: a reply/forward prefix, a blank, or
\* a word.  Upper-case tokens stand for any spelling with capitals.
Blank == " "

Lower(tok) ==
  CASE tok = "RE:"  -> "re:"
    [] tok = "FWD:" -> "fwd:"
    [] tok = "X"    -> "x"
    [] OTHER        -> tok

\* str.lower()
LowerStr(s) == [i \in 1..Len(s) |-> Lower(s[i])]

\* str.strip()
RECURSIVE StripLeft(_)
StripLeft(s) ==
  IF s # <<>> /\ Head(s) = Blank THEN StripLeft(Tail(s)) ELSE s

RECURSIVE StripRight(_)
StripRight(s) ==
  IF s # <<>> /\ s[Len(s)] = Blank
    THEN StripRight(SubSeq(s, 1, Len(s) - 1)) ELSE s

Strip(s) == StripRight(StripLeft(s))

\* str.startswith(prefix), for a prefix that is one token.
StartsWith(s, prefix) == s # <<>> /\ Head(s) = prefix

\* The list in _normalize_subject, in its order.
Prefixes == <<"re:", "fwd:", "fw:", "forward:", "reply:">>

\* The for loop of _normalize_subject from the i-th prefix on: each prefix
\* of the list is tested once, against what the earlier ones left.
RECURSIVE StripFrom(_, _)
StripFrom(s, i) ==
  IF i > Len(Prefixes) THEN s
  ELSE IF StartsWith(s, Prefixes[i])
         THEN StripFrom(Strip(Tail(s)), i + 1)
         ELSE StripFrom(s, i + 1)

NormalizeSubject_KeepPrefix(subject) ==
  IF subject = <<>> THEN <<>> ELSE LowerStr(Strip(subject))

NormalizeSubject(subject) ==
  IF subject = <<>> THEN <<>> ELSE StripFrom(LowerStr(Strip(subject)), 1)

\* Addresses in the order sorted() puts them.
AddressOrder == <<"a", "b">>

Addresses == {AddressOrder[i] : i \in 1..Len(AddressOrder)}

\* sorted(list(set(...))) of a set of addresses.
Sorted(S) == LET in(x) == x \in S IN SelectSeq(AddressOrder, in)

\* ':'.join(strs)
RECURSIVE JoinColon(_)
JoinColon(strs) ==
  IF strs = <<>> THEN <<>>
  ELSE IF Len(strs) = 1 THEN <<strs[1]>>
  ELSE <<strs[1], ":">> \o JoinColon(Tail(strs))

\* hashlib.md5(...).hexdigest(): two strings get the same digest only
\* when they are equal, so the digest is represented by the string.
Md5(s) == s

GenerateThreadId_SubjectOnly(subject, participants) ==
  Md5(NormalizeSubject(subject))

\* generate_thread_id
GenerateThreadId(subject, participants) ==
  Md5(NormalizeSubject(subject) \o <<":">> \o JoinColon(Sorted(participants)))

\* _assign_email_to_thread: From plus the TO and CC recipient rows.
Participants(from, to, cc) ==
  {from} \cup {to[i] : i \in 1..Len(to)} \cup {cc[i] : i \in 1..Len(cc)}

\* create_or_get_thread, the SELECT by key: an existing thread is loaded
\* into the session with the column values committed at that moment.
GetThread(c) ==
  /\ call[c].pc = "get_thread"
  /\ LET ex == {t \in DOMAIN threads : threads[t].key = call[c].p.key} IN
       IF ex # {}
         THEN LET t == CHOOSE t \in ex : TRUE IN
              call' = [call EXCEPT ![c].pc = "max_position",
                                   ![c].thr = t,
                                   ![c].cnt = threads[t].email_count,
                                   ![c].first = threads[t].first,
                                   ![c].last = threads[t].last]
         ELSE call' = [call EXCEPT ![c].pc = "insert_thread"]
  /\ UNCHANGED <<users, raws, emails, threads, run, listing, scan,
               calendar, limiter, accounts>>

ThreadInsertBlocked(c, k) ==
  \E d \in Calls \ {c} :
    InFlight(d) /\ call[d].txThread /\ ThreadUniqueConflict(call[d].p.key, k)

\* create_or_get_thread, db.add(new_thread); flush(); refresh().  A unique
\* conflict raises IntegrityError, which _assign_email_to_thread catches
\* and logs: the transaction (with the Email INSERT) is already rolled
\* back and process_webhook_email carries on to its commit.
InsertThread_CountOne(c) ==
  /\ call[c].pc = "insert_thread"
  /\ ~ThreadInsertBlocked(c, call[c].p.key)
  /\ IF \E t \in DOMAIN threads : ThreadUniqueConflict(threads[t].key, call[c].p.key)
       THEN call' = [call EXCEPT ![c].pc = "commit",
                                 ![c].sessionOk = FALSE,
                                 ![c].txEmail = FALSE]
       ELSE call' = [call EXCEPT ![c].pc = "max_position",
                                 ![c].txThread = TRUE,
                                 ![c].thr = c,
                                 ![c].cnt = 1,
                                 ![c].first = 0,
                                 ![c].last = 0]
  /\ UNCHANGED <<users, raws, emails, threads, run, listing, scan,
               calendar, limiter, accounts>>

InsertThread(c) ==
  /\ call[c].pc = "insert_thread"
  /\ ~ThreadInsertBlocked(c, call[c].p.key)
  /\ IF \E t \in DOMAIN threads : ThreadUniqueConflict(threads[t].key, call[c].p.key)
       THEN call' = [call EXCEPT ![c].pc = "commit",
                                 ![c].sessionOk = FALSE,
                                 ![c].txEmail = FALSE]
       ELSE call' = [call EXCEPT ![c].pc = "max_position",
                                 ![c].txThread = TRUE,
                                 ![c].thr = c,
                                 ![c].cnt = 0,
                                 ![c].first = 0,
                                 ![c].last = 0]
  /\ UNCHANGED <<users, raws, emails, threads, run, listing, scan,
               calendar, limiter, accounts>>

\* "current_max_position.scalar() or -1": SELECT max(thread_position) is
\* NULL for a thread without emails, and Python's `or` also replaces 0.
MaxPositionOrMinusOne(t) ==
  LET ps == {emails[e].pos : e \in {x \in DOMAIN emails : emails[x].thread = t}} IN
    IF ps = {} THEN -1
    ELSE IF SetMax(ps) = 0 THEN -1 ELSE SetMax(ps)

\* add_email_to_thread up to its flush: the SELECT max(...) and the
\* in-memory changes of the email and of the thread object.
SelectMaxPosition_OverwritesFirst(c) ==
  /\ call[c].pc = "max_position"
  /\ call' = [call EXCEPT
       ![c].pc = "flush_thread",
       ![c].pos = MaxPositionOrMinusOne(call[c].thr) + 1,
       ![c].cnt = @ + 1,
       ![c].first = c,
       ![c].last = c]
  /\ UNCHANGED <<users, raws, emails, threads, run, listing, scan,
               calendar, limiter, accounts>>

SelectMaxPosition(c) ==
  /\ call[c].pc = "max_position"
  /\ call' = [call EXCEPT
       ![c].pc = "flush_thread",
       ![c].pos = MaxPositionOrMinusOne(call[c].thr) + 1,
       ![c].cnt = @ + 1,
       ![c].first = IF @ = 0 THEN c ELSE @,
       ![c].last = c]
  /\ UNCHANGED <<users, raws, emails, threads, run, listing, scan,
               calendar, limiter, accounts>>

\* Another open transaction has an uncommitted UPDATE on the same thread
\* row: the UPDATE waits for the row lock.
ThreadUpdateBlocked(c) ==
  \E d \in Calls \ {c} :
    InFlight(d) /\ call[d].txUpd /\ call[d].thr = call[c].thr

\* add_email_to_thread, flush(): UPDATE emails SET thread_id, thread_position
\* and UPDATE email_threads SET email_count = <value computed in memory>, ...
FlushThread(c) ==
  /\ call[c].pc = "flush_thread"
  /\ ~ThreadUpdateBlocked(c)
  /\ call' = [call EXCEPT ![c].pc = "commit", ![c].txUpd = TRUE]
  /\ UNCHANGED <<users, raws, emails, threads, run, listing, scan,
               calendar, limiter, accounts>>

\* The Email row as process_webhook_email builds it; the actionables
\* columns take their defaults.
NewEmailRow(c) ==
  [mid          |-> call[c].p.mid,
   ident        |-> call[c].p.ident,
   user         |-> call[c].p.rcpt,
   raw          |-> c,
   thread       |-> call[c].thr,
   pos          |-> call[c].pos,
   parent_email_identifier |-> ExtractParentEmailIdentifier(call[c].p),
   parent_email_id         |-> call[c].parent_id,
   rows         |-> call[c].pending \cup {"attachments", "headers"},
   status       |-> "PENDING",
   processed_at |-> FALSE,
   error        |-> <<>>]

\* The thread row after the transaction of c commits: a new row carries
\* the object's values, its subject and summary being the ones call c
\* generated from its payload; for an existing row the UPDATE overwrites
\* the attributes that changed in memory.
CommittedThreads(c) ==
  IF call[c].txThread
    THEN threads @@ (call[c].thr :>
           [key |-> call[c].p.key, summary |-> c,
            email_count |-> call[c].cnt,
            first |-> call[c].first, last |-> call[c].last])
    ELSE [threads EXCEPT
           ![call[c].thr].email_count = call[c].cnt,
           ![call[c].thr].last = call[c].last,
           ![call[c].thr].first = IF call[c].first = c THEN c ELSE @]

\* save_attachments, save_headers, raw_email.processing_status = PROCESSED,
\* commit().  On a session whose flush failed, commit() raises
\* PendingRollbackError.
Commit_RawLater(c) ==
  /\ call[c].pc = "commit"
  /\ IF call[c].sessionOk
       THEN /\ emails' = emails @@ (c :> NewEmailRow(c))
            /\ threads' = CommittedThreads(c)
            /\ call' = [call EXCEPT ![c].pc = "finish",
                                    ![c].txEmail = FALSE,
                                    ![c].txThread = FALSE,
                                    ![c].txUpd = FALSE]
            /\ UNCHANGED raws
       ELSE /\ call' = [call EXCEPT ![c].pc = "except",
                                    ![c].error = "PendingRollbackError"]
            /\ UNCHANGED <<emails, threads, raws>>
  /\ UNCHANGED <<users, run, listing, scan,
               calendar, limiter, accounts>>

Commit(c) ==
  /\ call[c].pc = "commit"
  /\ IF call[c].sessionOk
       THEN /\ emails' = emails @@ (c :> NewEmailRow(c))
            /\ threads' = CommittedThreads(c)
            /\ raws' = [raws EXCEPT ![c] = "PROCESSED"]
            /\ call' = [call EXCEPT ![c].pc = "finish",
                                    ![c].txEmail = FALSE,
                                    ![c].txThread = FALSE,
                                    ![c].txUpd = FALSE]
       ELSE /\ call' = [call EXCEPT ![c].pc = "except",
                                    ![c].error = "PendingRollbackError"]
            /\ UNCHANGED <<emails, threads, raws>>
  /\ UNCHANGED <<users, run, listing, scan,
               calendar, limiter, accounts>>

\* process_postmark_webhook after process_webhook_email returned: commit()
\* (nothing pending), _trigger_actionables_processing(processed_email.id),
\* return the result dict.
Finish(c) ==
  /\ call[c].pc = "finish"
  /\ LET eid == IF call[c].dup # 0 THEN call[c].dup ELSE c
         r == WebhookResult(eid) IN
       /\ run' = [run EXCEPT ![c] = [IdleRun EXCEPT !.pc = "scheduled",
                                                    !.email = eid]]
       /\ call' = [call EXCEPT ![c].pc = "done",
                               ![c].outcome = "returned",
                               ![c].res_email = r.email_id,
                               ![c].res_mid = r.message_id,
                               ![c].res_dup = r.duplicate]
  /\ UNCHANGED <<users, raws, emails, threads, listing, scan,
               calendar, limiter, accounts>>

\* The except clause of process_postmark_webhook, if it also created the
\* extraction task.
Except_Triggers(c) ==
  /\ call[c].pc = "except"
  /\ raws' = IF call[c].sessionOk THEN [raws EXCEPT ![c] = "FAILED"] ELSE raws
  /\ call' = [call EXCEPT ![c].pc = "done", ![c].outcome = "raised"]
  /\ run' = [run EXCEPT ![c] = [IdleRun EXCEPT !.pc = "scheduled", !.email = c]]
  /\ UNCHANGED <<users, emails, threads, listing, scan,
               calendar, limiter, accounts>>

\* The except clause of process_postmark_webhook: mark the raw record
\* FAILED and commit, then re-raise.  The commit itself raises on a
\* session whose flush failed, and the raw record keeps its status.
Except(c) ==
  /\ call[c].pc = "except"
  /\ raws' = IF call[c].sessionOk THEN [raws EXCEPT ![c] = "FAILED"] ELSE raws
  /\ call' = [call EXCEPT
       ![c].pc = "done",
       ![c].outcome = "raised",
       ![c].error = IF call[c].sessionOk THEN @ ELSE "PendingRollbackError"]
  /\ UNCHANGED <<users, emails, threads, run, listing, scan,
               calendar, limiter, accounts>>


\* ------------------------------------------------- actionables.py
\* update_email_actionables_status: one UPDATE in its own transaction.
\* actionables_processed_at is set for PROCESSED and cleared otherwise;
\* actionables_error_message is written only when a message is given.
StatusUpdated_KeepsTimestamp(e, status, msg) ==
  [emails EXCEPT ![e].status = status,
                 ![e].processed_at = IF status = "PROCESSED" THEN TRUE ELSE @,
                 ![e].error = IF msg # <<>> THEN msg ELSE @]

StatusUpdated(e, status, msg) ==
  [emails EXCEPT ![e].status = status,
                 ![e].processed_at = (status = "PROCESSED"),
                 ![e].error = IF msg # <<>> THEN msg ELSE @]

\* The committed Email rows assigned to thread t.
ThreadEmails(t) == {e \in DOMAIN emails : emails[e].thread = t}

\* get_email_thread_content, the second SELECT:
\* WHERE Email.thread_id = email.thread_id.
ThreadMessages(e) == ThreadEmails(emails[e].thread)

\* process_actionables_wrapper, first await: get_email_thread_content
\* reads the email and its thread in a fresh session; it returns "" when
\* no Email row has that id.
GetThreadContent(c) ==
  /\ run[c].pc = "scheduled"
  /\ run' = [run EXCEPT
       ![c].pc = "start",
       ![c].content = IF run[c].email \in DOMAIN emails THEN "thread" ELSE "empty",
       ![c].messages = IF run[c].email \in DOMAIN emails
                         THEN ThreadMessages(run[c].email) ELSE {}]
  /\ UNCHANGED <<users, raws, emails, threads, call, listing, scan,
               calendar, limiter, accounts>>

\* What process_actionables returns from its except clause.
ErrorDict == [error |-> "Failed to process actionables."]

\* process_actionables_detached: the status goes to PROCESSING, then
\* process_actionables builds the AgentService and run_all_agents reaches
\* asyncio.gather, which creates the three tasks.  If building or running
\* the service raises, process_actionables returns ErrorDict instead.
BeginProcessing_AgentsFirst(c) ==
  /\ run[c].pc = "start"
  /\ \/ run' = [run EXCEPT ![c].pc = "agents"]
     \/ run' = [run EXCEPT ![c].pc = "final",
                           ![c].orch = "failed",
                           ![c].results = ErrorDict]
  /\ UNCHANGED <<users, raws, emails, threads, call, listing, scan,
               calendar, limiter, accounts>>

BeginProcessing(c) ==
  /\ run[c].pc = "start"
  /\ emails' = StatusUpdated(run[c].email, "PROCESSING", <<>>)
  /\ \/ run' = [run EXCEPT ![c].pc = "agents"]
     \/ run' = [run EXCEPT ![c].pc = "final",
                           ![c].orch = "failed",
                           ![c].results = ErrorDict]
  /\ UNCHANGED <<users, raws, threads, call, listing, scan,
               calendar, limiter, accounts>>

\* -------------------------------------------------- agent_service.py
\* The agent capability of one task ends: it returns its output or raises.
AgentFinish(c, a, o) ==
  /\ run[c].pc = "agents"
  /\ run[c].agent[a] = "pending"
  /\ run' = [run EXCEPT ![c].agent[a] = o]
  /\ UNCHANGED <<users, raws, emails, threads, call, listing, scan,
               calendar, limiter, accounts>>

\* run_calendar_agent / run_notes_agent / run_shopping_agent: the task's
\* own try/except turns an exception of the capability into a failure
\* dict.  A task that has not finished has produced nothing.
AgentTask(a, o) ==
  CASE o = "ok"    -> [kind |-> "dict", success |-> TRUE, error |-> "-"]
    [] o = "raise" -> [kind |-> "dict", success |-> FALSE, error |-> a]
    [] OTHER       -> [kind |-> "none", success |-> FALSE, error |-> "-"]

\* asyncio.gather(..., return_exceptions=True) resumes its caller when
\* every task has finished.
GatherReady_Any(ag) == \E a \in Agents : ag[a] # "pending"

GatherReady(ag) == \A a \in Agents : ag[a] # "pending"

\* run_all_agents after the gather: an exception object in a slot is
\* replaced by a failure dict; the three slots are returned.
RunAllAgents(ag) ==
  [a \in Agents |->
     LET r == AgentTask(a, ag[a]) IN
       IF r.kind = "exception"
         THEN [kind |-> "dict", success |-> FALSE, error |-> r.error]
         ELSE r]

\* The gather returns and process_actionables hands the aggregate on.
Join(c) ==
  /\ run[c].pc = "agents"
  /\ GatherReady(run[c].agent)
  /\ run' = [run EXCEPT ![c].pc = "final",
                        ![c].results = RunAllAgents(run[c].agent)]
  /\ UNCHANGED <<users, raws, emails, threads, call, listing, scan,
               calendar, limiter, accounts>>

\* process_actionables_detached: a slot counts as failed when
\* isinstance(results.get(slot), Exception).
DetachedErrors(results) ==
  {a \in Agents : a \in DOMAIN results /\ results[a].kind = "exception"}

\* "; ".join(errors): the failed slots in the order calendar, notes,
\* shopping, each by its display name.
ErrorMessage(errs) ==
  LET names == [i \in 1..3 |-> DomainName(<<"calendar", "notes", "shopping">>[i])]
      keep(n) == \E a \in errs : DomainName(a) = n
  IN SelectSeq(names, keep)

\* The status process_actionables_detached writes at the end.
FinalStatus_Stuck(results) ==
  IF DetachedErrors(results) # {} THEN "FAILED"
  ELSE IF DOMAIN results = Agents THEN "PROCESSED" ELSE "PROCESSING"

FinalStatus(results) ==
  IF DetachedErrors(results) # {} THEN "FAILED" ELSE "PROCESSED"

\* process_actionables_detached, the final status update.
Finalize(c) ==
  /\ run[c].pc = "final"
  /\ emails' = StatusUpdated(run[c].email,
                             FinalStatus(run[c].results),
                             ErrorMessage(DetachedErrors(run[c].results)))
  /\ run' = [run EXCEPT ![c].pc = "done"]
  /\ UNCHANGED <<users, raws, threads, call, listing, scan,
               calendar, limiter, accounts>>

\* ------------------------------------------ payloads with their subject
\* Prefixes that payload subjects carry in front of the word.
InputPrefixes == {"re:", "fwd:"}

PrefixSeqs == UNION {[1..n -> InputPrefixes] : n \in 0..MaxPrefixes}

\* "re: fwd: x": the prefixes, each followed by a blank, then the word.
RECURSIVE PlainSubject(_)
PlainSubject(ps) ==
  IF ps = <<>> THEN <<"x">> ELSE <<Head(ps), Blank>> \o PlainSubject(Tail(ps))

Upper(tok) ==
  CASE tok = "re:"  -> "RE:"
    [] tok = "fwd:" -> "FWD:"
    [] tok = "x"    -> "X"
    [] OTHER        -> tok

\* " RE: FWD: X ": the same subject in capitals inside blanks.
StyledSubject(ps) ==
  LET s == PlainSubject(ps) IN
    <<Blank>> \o [i \in 1..Len(s) |-> Upper(s[i])] \o <<Blank>>

Subjects == {PlainSubject(ps) : ps \in PrefixSeqs}
              \cup {StyledSubject(ps) : ps \in PrefixSeqs}

\* A schema-valid payload of call c with its Subject, From, To and Cc; its
\* MessageID and header identifier are new, and key is what
\* generate_thread_id returns for it.
SubjectPayloads(c) ==
  {[mid |-> c, ident |-> c, rcpt |-> "u1", parent |-> 0,
    subject |-> s, from |-> f, to |-> <<t>>, cc |-> <<>>,
    key |-> GenerateThreadId(s, Participants(f, <<t>>, <<>>))] :
     s \in Subjects, f \in Addresses, t \in Addresses}

\* validate_webhook_request and process_user_from_webhook, as ResolveUser.
ResolveUserOfEmail(c) ==
  /\ call[c].pc = "idle"
  /\ \A d \in Calls : d < c => call[d].pc # "idle"
  /\ \E p \in SubjectPayloads(c) :
       /\ users' = users \cup {p.rcpt}
       /\ call' = [call EXCEPT ![c].pc = "save_raw", ![c].p = p]
  /\ UNCHANGED <<raws, emails, threads, run, listing, scan,
               calendar, limiter, accounts>>

InitThread ==
  /\ users = {}
  /\ raws = <<>>
  /\ emails = <<>>
  /\ threads = <<>>
  /\ call = [c \in 1..NumThreadCalls |-> IdleCall]
  /\ run = [c \in 1..NumThreadCalls |-> IdleRun]
  /\ listing = NoListing
  /\ scan = NoScan
  /\ calendar = NoCalendar
  /\ limiter = NoLimiter
  /\ accounts = {}

\* -------------------------------------------- payloads with a parent
\* A schema-valid payload of call c: new MessageID and header identifier,
\* one conversation, and an In-Reply-To header that is absent (0) or names
\* the identifier of another call's email or of an email that never
\* arrives (NumReplyCalls + 1).
ReplyPayloads(c) ==
  {[mid |-> c, ident |-> c, key |-> 1, rcpt |-> "u1", parent |-> par] :
     par \in (0..(NumReplyCalls + 1)) \ {c}}

\* validate_webhook_request and process_user_from_webhook, as ResolveUser.
ResolveUserOfReply(c) ==
  /\ call[c].pc = "idle"
  /\ \A d \in Calls : d < c => call[d].pc # "idle"
  /\ \E p \in ReplyPayloads(c) :
       /\ users' = users \cup {p.rcpt}
       /\ call' = [call EXCEPT ![c].pc = "save_raw", ![c].p = p]
  /\ UNCHANGED <<raws, emails, threads, run, listing, scan,
               calendar, limiter, accounts>>

InitReply ==
  /\ users = {}
  /\ raws = <<>>
  /\ emails = <<>>
  /\ threads = <<>>
  /\ call = [c \in 1..NumReplyCalls |-> IdleCall]
  /\ run = [c \in 1..NumReplyCalls |-> IdleRun]
  /\ listing = NoListing
  /\ scan = NoScan
  /\ calendar = NoCalendar
  /\ limiter = NoLimiter
  /\ accounts = {}

\* ------------------------------------- payloads with all recipients
\* Lists of addresses, with repeats and in every order.
AddressLists(n) == UNION {[1..k -> Addresses] : k \in 0..n}

\* save_recipients: one FROM row, then the TO, CC and BCC rows in the
\* order of the payload's lists.
SaveRecipients(p) ==
  <<[recipient_type |-> "FROM", email_address |-> p.from]>>
  \o [i \in 1..Len(p.to) |-> [recipient_type |-> "TO", email_address |-> p.to[i]]]
  \o [i \in 1..Len(p.cc) |-> [recipient_type |-> "CC", email_address |-> p.cc[i]]]
  \o [i \in 1..Len(p.bcc) |-> [recipient_type |-> "BCC", email_address |-> p.bcc[i]]]

\* _assign_email_to_thread: email_data.From and the address of every
\* recipient row of type TO or CC, as a set.
ThreadParticipants_WithBcc(p) ==
  LET rows == SaveRecipients(p) IN
    {p.from} \cup {rows[i].email_address : i \in
                     {j \in 1..Len(rows) : rows[j].recipient_type # "FROM"}}

ThreadParticipants(p) ==
  LET rows == SaveRecipients(p) IN
    {p.from} \cup {rows[i].email_address : i \in
                     {j \in 1..Len(rows) : rows[j].recipient_type \in {"TO", "CC"}}}

\* Subjects of these payloads: plain, as a reply in two spellings, and
\* one that contains a colon followed by the text of an address.
EnvelopeSubjects ==
  {<<"x">>, <<"re:", Blank, "x">>, <<Blank, "RE:", Blank, "X", Blank>>,
   <<"x", ":", "a">>}

\* A schema-valid payload of call c with its Subject, From, ToFull, CcFull
\* and BccFull; key is what _assign_email_to_thread asks a thread for.
Envelopes(c) ==
  {[mid |-> c, ident |-> c, rcpt |-> "u1",
    subject |-> sb, from |-> f, to |-> t, cc |-> cc, bcc |-> b,
    key |-> GenerateThreadId(sb,
              ThreadParticipants([from |-> f, to |-> t, cc |-> cc, bcc |-> b]))] :
     sb \in EnvelopeSubjects, f \in Addresses, t \in AddressLists(MaxTo),
     cc \in AddressLists(MaxCopies), b \in AddressLists(MaxCopies)}

\* validate_webhook_request and process_user_from_webhook, as ResolveUser.
ResolveUserOfEnvelope(c) ==
  /\ call[c].pc = "idle"
  /\ \A d \in Calls : d < c => call[d].pc # "idle"
  /\ \E p \in Envelopes(c) :
       /\ users' = users \cup {p.rcpt}
       /\ call' = [call EXCEPT ![c].pc = "save_raw", ![c].p = p]
  /\ UNCHANGED <<raws, emails, threads, run, listing, scan,
               calendar, limiter, accounts>>

\* Two emails whose keys are compared.
InitEnvelopes ==
  /\ users = {}
  /\ raws = <<>>
  /\ emails = <<>>
  /\ threads = <<>>
  /\ call = [c \in 1..2 |-> IdleCall]
  /\ run = [c \in 1..2 |-> IdleRun]
  /\ listing = NoListing
  /\ scan = NoScan
  /\ calendar = NoCalendar
  /\ limiter = NoLimiter
  /\ accounts = {}

\* ------------------------------- migrate_existing_emails_to_threads
\* sorted(participants) of a list: every address as often as it occurs.
RECURSIVE Copies(_, _)
Copies(a, n) == IF n = 0 THEN <<>> ELSE <<a>> \o Copies(a, n - 1)

Occurrences(l, a) == Cardinality({i \in 1..Len(l) : l[i] = a})

RECURSIVE SortedListFrom(_, _)
SortedListFrom(l, k) ==
  IF k > Len(AddressOrder) THEN <<>>
  ELSE Copies(AddressOrder[k], Occurrences(l, AddressOrder[k]))
         \o SortedListFrom(l, k + 1)

SortedList(l) == SortedListFrom(l, 1)

\* generate_thread_id when it is handed a list that may hold repeats.
GenerateThreadIdOfList(subject, participants) ==
  Md5(NormalizeSubject(subject) \o <<":">> \o JoinColon(SortedList(participants)))

\* The participants migrate_existing_emails_to_threads takes from the
\* stored recipient rows: those of type FROM or TO, or from_email if
\* there is none.
MigrationParticipants(row) ==
  LET rows == SaveRecipients(row)
      keep(r) == r.recipient_type \in {"FROM", "TO"}
      kept == SelectSeq(rows, keep)
      l == [i \in 1..Len(kept) |-> kept[i].email_address]
  IN IF l = <<>> THEN <<row.from>> ELSE l

\* An Email stored without a thread: the row process_webhook_email builds
\* for the payload, with its recipient rows, thread_id NULL.
StoreWithoutThread(c) ==
  /\ call[c].pc = "idle"
  /\ \A d \in Calls : d < c => call[d].pc # "idle"
  /\ \A e \in DOMAIN emails : emails[e].thread = 0
  /\ \E p \in Envelopes(c) :
       /\ users' = users \cup {p.rcpt}
       /\ call' = [call EXCEPT ![c].pc = "done", ![c].p = p,
                               ![c].outcome = "returned"]
       /\ raws' = raws @@ (c :> "PROCESSED")
       /\ emails' = emails @@ (c :>
            [mid |-> p.mid, ident |-> p.ident, user |-> p.rcpt, raw |-> c,
             thread |-> 0, pos |-> 0,
             rows |-> {"recipients", "attachments", "headers"},
             status |-> "PENDING", processed_at |-> FALSE, error |-> <<>>,
             subject |-> p.subject, from |-> p.from, to |-> p.to,
             cc |-> p.cc, bcc |-> p.bcc])
  /\ UNCHANGED <<threads, run, listing, scan,
               calendar, limiter, accounts>>

\* The loop of migrate_existing_emails_to_threads over the emails in
\* todo, lowest id first, on the rows es and ts of its transaction:
\* create_or_get_thread, then add_email_to_thread.
RECURSIVE MigrateLoop(_, _, _)
MigrateLoop(todo, es, ts) ==
  IF todo = {} THEN [emails |-> es, threads |-> ts]
  ELSE
    LET e == CHOOSE x \in todo : \A y \in todo : x <= y
        k == GenerateThreadIdOfList(es[e].subject, MigrationParticipants(es[e]))
        ex == {t \in DOMAIN ts : ts[t].key = k}
        t == IF ex # {} THEN CHOOSE x \in ex : TRUE ELSE e
        ts1 == IF ex # {} THEN ts
               ELSE ts @@ (e :> [key |-> k, summary |-> e, email_count |-> 0,
                                 first |-> 0, last |-> 0])
        ps == {es[x].pos : x \in {y \in DOMAIN es : es[y].thread = t}}
        max_position == IF ps = {} \/ SetMax(ps) = 0 THEN -1 ELSE SetMax(ps)
        es2 == [es EXCEPT ![e].thread = t, ![e].pos = max_position + 1]
        ts2 == [ts1 EXCEPT ![t].email_count = @ + 1,
                           ![t].first = IF @ = 0 THEN e ELSE @,
                           ![t].last = e]
    IN MigrateLoop(todo \ {e}, es2, ts2)

\* migrate_existing_emails_to_threads: SELECT the emails whose thread_id
\* is NULL, run the loop, commit.
MigrateExistingEmailsToThreads ==
  /\ \E e \in DOMAIN emails : emails[e].thread = 0
  /\ LET r == MigrateLoop({e \in DOMAIN emails : emails[e].thread = 0},
                          emails, threads)
     IN /\ emails' = r.emails
        /\ threads' = r.threads
  /\ UNCHANGED <<users, raws, call, run, listing, scan,
               calendar, limiter, accounts>>

\* ------------------------------------------------ EmailRetrievalService
\* _apply_user_filter: WHERE Email.user_id = :user_id
UserEmails(u) == {e \in DOMAIN emails : emails[e].user = u}

\* An Email as the queries load it, with joinedload(Email.thread).
LoadedEmail(e) ==
  [id |-> e, row |-> emails[e],
   thread |-> IF emails[e].thread \in DOMAIN threads
                THEN threads[emails[e].thread] ELSE <<>>]

\* get_emails_with_pagination: all pages together.
GetEmailsWithPagination(u) == {LoadedEmail(e) : e \in UserEmails(u)}

\* get_email_by_id
GetEmailById(e, u) ==
  IF e \in UserEmails(u) THEN LoadedEmail(e) ELSE <<>>

\* get_emails_by_thread_id
GetEmailsByThreadId(t, u) ==
  {LoadedEmail(e) : e \in {x \in UserEmails(u) : emails[x].thread = t}}

\* get_email_thread: the user's emails of the thread of email e.
GetEmailThread(e, u) ==
  IF e \in UserEmails(u) /\ emails[e].thread # 0
    THEN GetEmailsByThreadId(emails[e].thread, u) ELSE {}

\* get_thread_by_id: the EmailThread row, its emails cut down to the
\* user's; None when the user has no email in the thread.
GetThreadById(t, u) ==
  IF \E e \in UserEmails(u) : emails[e].thread = t
    THEN [thread |-> threads[t],
          emails |-> {e \in UserEmails(u) : emails[e].thread = t}]
    ELSE <<>>

\* ------------------------------------------------ listing emails
\* Column names a caller may send as sort_by: the ones either allow-list
\* names, further attributes of Email, and names Email does not have.
SortNames ==
  {"sent_at", "processed_at", "from_email", "subject", "spam_score",
   "message_id", "id", "created_at", "user_id", "raw_email_id",
   "password", "__table__"}

\* Mapped columns and class attributes of Email among SortNames.
EmailAttributes == SortNames \ {"created_at", "password"}

\* Page sizes a caller may send; 101 is the first one above the maximum.
Limits == 0..MaxLimit \cup {101}

\* EmailListRequest.validate_sort_by: allowed_fields
AllowedFields ==
  {"sent_at", "processed_at", "from_email", "subject", "spam_score",
   "message_id"}

\* EmailListRequest: page ge=1, limit ge=1 le=100, sort_order pattern,
\* validate_sort_by.  TRUE when the request model is accepted.
ValidateSortBy(v) == v \in AllowedFields

EmailListRequestValid(r) ==
  /\ r.page >= 1
  /\ r.limit >= 1 /\ r.limit <= 100
  /\ r.sort_order \in {"asc", "desc"}
  /\ ValidateSortBy(r.sort_by)

\* EmailRetrievalService._validate_sort_column: allowed_columns
AllowedColumns ==
  {"sent_at", "processed_at", "from_email", "subject", "spam_score",
   "message_id", "id", "created_at"}

ValidateSortColumn_HasAttr(sort_by) ==
  IF sort_by \in EmailAttributes THEN sort_by ELSE "sent_at"

ValidateSortColumn(sort_by) ==
  IF sort_by \notin AllowedColumns THEN "sent_at" ELSE sort_by

\* PaginationInfo.create
PaginationInfoCreate_Floor(page, limit, total_items) ==
  LET total_pages == IF total_items > 0 THEN total_items \div limit ELSE 0
  IN [page |-> page, limit |-> limit, total_items |-> total_items,
      total_pages |-> total_pages,
      has_next |-> page < total_pages,
      has_previous |-> page > 1]

PaginationInfoCreate(page, limit, total_items) ==
  LET total_pages ==
        IF total_items > 0 THEN (total_items + limit - 1) \div limit ELSE 0
  IN [page |-> page, limit |-> limit, total_items |-> total_items,
      total_pages |-> total_pages,
      has_next |-> page < total_pages,
      has_previous |-> page > 1]

\* The list requests: through POST /emails/list ("api") or by a direct
\* call of get_emails_with_pagination ("service").
ListRequests ==
  {[NoListing EXCEPT !.pc = IF via = "api" THEN "request" ELSE "service",
                     !.via = via, !.sort_by = sb, !.sort_order = so,
                     !.page = pg, !.limit = lm] :
     via \in {"api", "service"}, sb \in SortNames, so \in {"asc", "desc"},
     pg \in 0..MaxPage, lm \in Limits}

\* FastAPI builds the EmailListRequest model; a body that fails the model
\* is answered 422 and list_emails is not entered.
ValidateRequest ==
  /\ listing.pc = "request"
  /\ listing' = IF EmailListRequestValid(listing)
                  THEN [listing EXCEPT !.pc = "service"]
                  ELSE [listing EXCEPT !.pc = "done",
                                       !.error = "ValidationError"]
  /\ UNCHANGED <<users, raws, emails, threads, call, run, scan,
               calendar, limiter, accounts>>

\* get_emails_with_pagination: clamps page and limit, counts, validates
\* the sort column and reads it off Email with getattr.
GetEmailsWithPaginationCall ==
  /\ listing.pc = "service"
  /\ \E n \in 0..MaxItems :
       LET page == IF listing.page <= 0 THEN 1 ELSE listing.page
           limit == IF listing.limit <= 0 \/ listing.limit > 100
                      THEN 20 ELSE listing.limit
           sort_column_name == ValidateSortColumn(listing.sort_by)
       IN listing' =
            IF sort_column_name \notin EmailAttributes
              THEN [listing EXCEPT !.pc = "done", !.error = "AttributeError"]
              ELSE [listing EXCEPT
                      !.pc = IF listing.via = "api" THEN "respond" ELSE "done",
                      !.sort_column = sort_column_name,
                      !.total_count = n]
  /\ UNCHANGED <<users, raws, emails, threads, call, run, scan,
               calendar, limiter, accounts>>

\* list_emails: PaginatedResponse.success with the request's page and
\* limit and the service's total_count.
PaginatedSuccess ==
  /\ listing.pc = "respond"
  /\ listing' = [listing EXCEPT
                   !.pc = "done",
                   !.pagination = PaginationInfoCreate(listing.page,
                                                       listing.limit,
                                                       listing.total_count)]
  /\ UNCHANGED <<users, raws, emails, threads, call, run, scan,
               calendar, limiter, accounts>>

InitList ==
  /\ users = {}
  /\ raws = <<>>
  /\ emails = <<>>
  /\ threads = <<>>
  /\ call = [c \in 1..NumCalls |-> IdleCall]
  /\ run = [c \in 1..NumCalls |-> IdleRun]
  /\ listing \in ListRequests
  /\ scan = NoScan
  /\ calendar = NoCalendar
  /\ limiter = NoLimiter
  /\ accounts = {}

\* ------------------------------------------- identifier extraction
\* Header names as senders spell them, and their str.lower().
HeaderNames ==
  {"X-Microsoft-Original-Message-ID", "X-Gmail-Original-Message-ID",
   "Message-ID", "message-id", "Subject"}

LowerName(n) ==
  CASE n = "X-Microsoft-Original-Message-ID" -> "x-microsoft-original-message-id"
    [] n = "X-Gmail-Original-Message-ID"     -> "x-gmail-original-message-id"
    [] n = "Message-ID"                      -> "message-id"
    [] n = "Subject"                         -> "subject"
    [] OTHER                                 -> n

\* Header values: empty, padded with white space, and plain.
HeaderValues == {<<>>, <<Blank, "m1">>, <<"m2">>}

\* EmailHeaderData
HeaderData == [Name : HeaderNames, Value : HeaderValues]

HeaderLists == UNION {[1..n -> HeaderData] : n \in 0..MaxHeaders}

\* f"generated-{uuid.uuid4()}"
GeneratedId == <<"generated-", "uuid4">>

\* priority_headers
PriorityHeaders ==
  <<"x-microsoft-original-message-id", "x-gmail-original-message-id",
    "message-id">>

\* The inner loop of extract_email_identifier: the positions of the
\* headers named as asked (compared in lower case) whose Value is truthy.
Matching(headers, names) ==
  {i \in 1..Len(headers) :
     LowerName(headers[i].Name) \in names /\ headers[i].Value # <<>>}

\* WebhookProcessingService.extract_email_identifier: the outer loop from
\* the k-th priority header on.
RECURSIVE ExtractFrom(_, _)
ExtractFrom(headers, k) ==
  IF k > Len(PriorityHeaders) THEN GeneratedId
  ELSE LET m == Matching(headers, {PriorityHeaders[k]})
       IN IF m # {}
            THEN Strip(headers[CHOOSE i \in m : \A j \in m : i <= j].Value)
            ELSE ExtractFrom(headers, k + 1)

ExtractEmailIdentifier(headers) == ExtractFrom(headers, 1)

\* EmailWebhookService.extract_email_identifier (apis/v1/webhook): one
\* pass for the first header named as either provider header, then one
\* pass for message-id.
EmailWebhookService_ExtractEmailIdentifier(headers) ==
  LET m1 == Matching(headers, {"x-microsoft-original-message-id",
                               "x-gmail-original-message-id"})
      m2 == Matching(headers, {"message-id"})
      first(m) == CHOOSE i \in m : \A j \in m : i <= j
  IN IF m1 # {} THEN Strip(headers[first(m1)].Value)
     ELSE IF m2 # {} THEN Strip(headers[first(m2)].Value)
     ELSE GeneratedId

\* A payload's Headers list reaching one of the two services.
ScanRequests ==
  {[NoScan EXCEPT !.pc = "headers", !.service = sv, !.headers = h] :
     sv \in {"modules", "apis"}, h \in HeaderLists}

\* process_webhook_email of WebhookProcessingService extracting the
\* identifier.
ExtractIdentifier ==
  /\ scan.pc = "headers"
  /\ scan.service = "modules"
  /\ scan' = [scan EXCEPT !.pc = "done",
                          !.identifier = ExtractEmailIdentifier(scan.headers)]
  /\ UNCHANGED <<users, raws, emails, threads, call, run, listing,
               calendar, limiter, accounts>>

\* process_webhook_email of EmailWebhookService, the service behind
\* POST /webhook/postmark-webhook, extracting the identifier.
EmailWebhookService_ExtractIdentifier ==
  /\ scan.pc = "headers"
  /\ scan.service = "apis"
  /\ scan' = [scan EXCEPT
                !.pc = "done",
                !.identifier =
                  EmailWebhookService_ExtractEmailIdentifier(scan.headers)]
  /\ UNCHANGED <<users, raws, emails, threads, call, run, listing,
               calendar, limiter, accounts>>

InitScan ==
  /\ users = {}
  /\ raws = <<>>
  /\ emails = <<>>
  /\ threads = <<>>
  /\ call = [c \in 1..NumCalls |-> IdleCall]
  /\ run = [c \in 1..NumCalls |-> IdleRun]
  /\ listing = NoListing
  /\ scan \in ScanRequests
  /\ calendar = NoCalendar
  /\ limiter = NoLimiter
  /\ accounts = {}

\* ------------------------------------------- failing database sessions
\* get_email_thread_content when its session fails: the except clause
\* returns an error text, which the wrapper passes on as thread content.
ContentReadFails(c) ==
  /\ run[c].pc = "scheduled"
  /\ run' = [run EXCEPT ![c].pc = "start", ![c].content = "error"]
  /\ UNCHANGED <<users, raws, emails, threads, call, listing, scan,
               calendar, limiter, accounts>>

\* update_email_actionables_status(PROCESSING) when its transaction
\* fails: the exception is logged and swallowed, the row keeps its status
\* and process_actionables_detached goes on.
BeginProcessingWriteFails(c) ==
  /\ run[c].pc = "start"
  /\ \/ run' = [run EXCEPT ![c].pc = "agents", ![c].lost = TRUE]
     \/ run' = [run EXCEPT ![c].pc = "final",
                           ![c].lost = TRUE,
                           ![c].orch = "failed",
                           ![c].results = ErrorDict]
  /\ UNCHANGED <<users, raws, emails, threads, call, listing, scan,
               calendar, limiter, accounts>>

\* The final update_email_actionables_status when its transaction fails.
FinalizeWriteFails_Propagates(c) ==
  /\ run[c].pc = "final"
  /\ run' = [run EXCEPT ![c].pc = "done", ![c].lost = TRUE]
  /\ call' = [call EXCEPT ![c].outcome = "raised"]
  /\ UNCHANGED <<users, raws, emails, threads, listing, scan,
               calendar, limiter, accounts>>

FinalizeWriteFails(c) ==
  /\ run[c].pc = "final"
  /\ run' = [run EXCEPT ![c].pc = "done", ![c].lost = TRUE]
  /\ UNCHANGED <<users, raws, emails, threads, call, listing, scan,
               calendar, limiter, accounts>>

\* ------------------------------------------------ calendar tool calls
\* The arguments the calendar agent may pass to create_event for the
\* email of its run, and the write that the database rejects.
EventData ==
  [email_id : 1..2, attendees : AddressLists(MaxAttendees),
   organizer : BOOLEAN,
   fails : {"none", "event", "attendees", "organizer", "commit"}]

\* TransactionalRepository(...): Repository.__init__(self, model_class)
\* takes the model class and nothing else.
TransactionalRepositoryNew(args) ==
  IF Len(args) = 1 THEN "ok" ELSE "TypeError"

\* CalendarRepository(...): __init__(self, db_session) needs the session
\* and builds its four repositories with TransactionalRepository(
\* db_session, Model).
CalendarRepositoryNew(args) ==
  IF Len(args) # 1 THEN "TypeError"
  ELSE TransactionalRepositoryNew(<<args[1], "CalendarEvent">>)

\* The flushes and the commit that create_event reaches with data d when
\* none before it fails.
WritesOf(d) ==
  {"event", "commit"}
    \cup (IF d.attendees # <<>> THEN {"attendees"} ELSE {})
    \cup (IF d.organizer THEN {"organizer"} ELSE {})

\* The EventAttendee rows create_event adds for event id.
AttendeeRows(id, d) ==
  {[event_id |-> id, n |-> i, email |-> d.attendees[i],
    is_organizer |-> FALSE] : i \in 1..Len(d.attendees)}
  \cup (IF d.organizer
         THEN {[event_id |-> id, n |-> Len(d.attendees) + 1,
                email |-> "o", is_organizer |-> TRUE]}
         ELSE {})

\* The calendar agent calls the tool with event data.
ToolCalled ==
  /\ calendar.pc \in {"none", "done"}
  /\ calendar.calls < NumToolCalls
  /\ \E d \in EventData :
       calendar' = [calendar EXCEPT !.pc = "called", !.data = d,
                                    !.calls = @ + 1,
                                    !.outcome = "-", !.error = "-"]
  /\ UNCHANGED <<users, raws, emails, threads, call, run, listing, scan,
                 limiter, accounts>>

\* create_event: CalendarRepository() is built first, inside the try;
\* then one transaction adds and flushes the event, the attendees and the
\* organizer and commits on leaving the block.  Any exception rolls the
\* transaction back, is logged and raised again to the agent.
CreateEvent ==
  /\ calendar.pc = "called"
  /\ LET d    == calendar.data
         id   == calendar.calls
         repo == CalendarRepositoryNew(<<>>) IN
       IF repo # "ok"
         THEN calendar' = [calendar EXCEPT !.pc = "done",
                             !.outcome = "raised", !.error = repo]
       ELSE IF d.fails \in WritesOf(d)
         THEN calendar' = [calendar EXCEPT !.pc = "done",
                             !.outcome = "raised", !.error = "DBAPIError"]
       ELSE calendar' = [calendar EXCEPT !.pc = "done",
                           !.outcome = "returned",
                           !.events = @ \cup {[id |-> id, email_id |-> d.email_id]},
                           !.attendees = @ \cup AttendeeRows(id, d)]
  /\ UNCHANGED <<users, raws, emails, threads, call, run, listing, scan,
                 limiter, accounts>>

\* ------------------------------------------------------- rate limiter
\* The timestamps of reqs that are later than now - window_seconds.
Prune(reqs, now) ==
  LET inWindow(t) == t > now - WindowSeconds IN SelectSeq(reqs, inWindow)

\* is_allowed records the requests it turns away as well.
IsAllowedOn_RecordsRejected(reqs, now) ==
  LET kept == Prune(reqs, now) IN
    [requests |-> Append(kept, now), allowed |-> Len(kept) < MaxRequests]

\* RateLimiter.is_allowed on the list of one key at time now: the list it
\* stores back and the answer.
IsAllowedOn(reqs, now) ==
  LET kept == Prune(reqs, now) IN
    IF Len(kept) >= MaxRequests
      THEN [requests |-> kept, allowed |-> FALSE]
      ELSE [requests |-> Append(kept, now), allowed |-> TRUE]

\* time.time() moves on by a second.
Tick ==
  /\ limiter.now < MaxTime
  /\ limiter' = [limiter EXCEPT !.now = @ + 1]
  /\ UNCHANGED <<users, raws, emails, threads, call, run, listing, scan,
                 calendar, accounts>>

\* AuthMiddleware.dispatch asks is_allowed for a request with API key k.
\* is_allowed has no await: it runs from start to end without another
\* request in between.
IsAllowed(k) ==
  /\ LET r == IsAllowedOn(limiter.requests[k], limiter.now) IN
       limiter' = [limiter EXCEPT
         !.requests[k] = r.requests,
         !.admitted[k][limiter.now] = IF r.allowed THEN @ + 1 ELSE @,
         !.key = k,
         !.allowed = r.allowed]
  /\ UNCHANGED <<users, raws, emails, threads, call, run, listing, scan,
                 calendar, accounts>>

\* ------------------------------------------------- the owning user
\* OriginalRecipient values: one address in two spellings and another.
UserAddresses == {"u1@x", "U1@x", "u2@x"}

\* str.lower()
LowerAddress(a) == IF a = "U1@x" THEN "u1@x" ELSE a

\* email.split("@")[0].strip()
LocalPart(a) ==
  CASE a = "u1@x" -> "u1"
    [] a = "U1@x" -> "U1"
    [] a = "u2@x" -> "u2"

\* A webhook call before its payload arrives.
IdleUserCall ==
  [pc           |-> "idle",
   email        |-> "-",     \* OriginalRecipient
   mailbox_hash |-> "-",     \* MailboxHash
   name         |-> "-",     \* username of process_user_from_webhook
   found        |-> 0,       \* id of the row get_by_email returned (0 = None)
   row          |-> <<>>,    \* own User row, flushed and not committed
   created      |-> FALSE,
   user         |-> 0,       \* id of the User returned
   outcome      |-> "none",  \* "returned" | "raised"
   error        |-> "-"]

\* The committed User rows with address a.
UsersWithEmail(a) == {u \in accounts : u.email = a}

\* process_postmark_webhook up to process_user_from_webhook, which
\* chooses the user name, and the argument checks of
\* get_or_create_user_by_email_and_mailbox.  MailboxHash m is the request
\* model's default "" or a plus-address hash.
ProcessUserFromWebhook(c) ==
  /\ call[c].pc = "idle"
  /\ \A d \in Calls : d < c => call[d].pc # "idle"
  /\ \E a \in UserAddresses, m \in {"", "m"} :
       LET username == IF m = "" THEN LocalPart(a) ELSE m IN
         call' = [call EXCEPT
           ![c].email = LowerAddress(a), ![c].mailbox_hash = m, ![c].name = username,
           ![c].pc = IF m = "" THEN "done" ELSE "select",
           ![c].outcome = IF m = "" THEN "raised" ELSE @,
           ![c].error = IF m = "" THEN "ValueError" ELSE @]
  /\ UNCHANGED <<users, raws, emails, threads, run, listing, scan,
                 calendar, limiter, accounts>>

\* get_or_create_user: get_by_email in a session of the call's own.
GetByEmail(c) ==
  /\ call[c].pc = "select"
  /\ LET rows == UsersWithEmail(call[c].email) IN
       call' = [call EXCEPT
         ![c].found = IF rows = {} THEN 0 ELSE (CHOOSE u \in rows : TRUE).id,
         ![c].pc = IF rows = {} THEN "insert" ELSE "commit"]
  /\ UNCHANGED <<users, raws, emails, threads, run, listing, scan,
                 calendar, limiter, accounts>>

\* Another open transaction holds an uncommitted User row with this
\* address: the INSERT waits for it on the unique index.
UserInsertBlocked(c) ==
  \E d \in Calls \ {c} :
    /\ call[d].pc \in {"api_key", "commit"}
    /\ call[d].row # <<>>
    /\ call[d].row.email = call[c].email

\* create_user: add and flush.  A committed row with the address makes
\* the INSERT fail; the except clause rolls back and raises.
CreateUser(c) ==
  /\ call[c].pc = "insert"
  /\ ~UserInsertBlocked(c)
  /\ IF UsersWithEmail(call[c].email) # {}
       THEN call' = [call EXCEPT ![c].pc = "done", ![c].outcome = "raised",
                                 ![c].error = "IntegrityError"]
       ELSE call' = [call EXCEPT ![c].pc = "api_key", ![c].created = TRUE,
                       ![c].row = [id |-> c, email |-> call[c].email,
                                   mailbox_hash |-> call[c].mailbox_hash,
                                   name |-> call[c].name, api_key |-> FALSE]]
  /\ UNCHANGED <<users, raws, emails, threads, run, listing, scan,
                 calendar, limiter, accounts>>

\* created and not user.api_key: flush, refresh, generate_api_key, update.
SetApiKey(c) ==
  /\ call[c].pc = "api_key"
  /\ call' = [call EXCEPT ![c].pc = "commit", ![c].row.api_key = TRUE]
  /\ UNCHANGED <<users, raws, emails, threads, run, listing, scan,
                 calendar, limiter, accounts>>

\* session.commit(): the new row becomes visible, or the found row takes
\* the call's mailbox_hash and name; the user is returned.
CommitUser(c) ==
  /\ call[c].pc = "commit"
  /\ IF call[c].created
       THEN /\ accounts' = accounts \cup {call[c].row}
            /\ call' = [call EXCEPT ![c].pc = "done", ![c].outcome = "returned",
                                    ![c].user = call[c].row.id]
       ELSE /\ accounts' =
                 {IF u.id = call[c].found
                    THEN [u EXCEPT !.mailbox_hash = call[c].mailbox_hash,
                                   !.name = call[c].name]
                    ELSE u : u \in accounts}
            /\ call' = [call EXCEPT ![c].pc = "done", ![c].outcome = "returned",
                                    ![c].user = call[c].found]
  /\ UNCHANGED <<users, raws, emails, threads, run, listing, scan,
                 calendar, limiter>>

\* process_postmark_webhook after process_user_from_webhook: with a user
\* it goes on to save_raw_email; an exception leaves raw_email None and
\* is raised again with nothing stored.
AfterUser(c) ==
  /\ call[c].pc = "done"
  /\ call' = [call EXCEPT
       ![c].pc = IF call[c].outcome = "returned" THEN "save_raw" ELSE "failed"]
  /\ UNCHANGED <<users, raws, emails, threads, run, listing, scan,
                 calendar, limiter, accounts>>

InitUsers ==
  /\ users = {}
  /\ raws = <<>>
  /\ emails = <<>>
  /\ threads = <<>>
  /\ call = [c \in 1..NumUserCalls |-> IdleUserCall]
  /\ run = [c \in 1..NumUserCalls |-> IdleRun]
  /\ listing = NoListing
  /\ scan = NoScan
  /\ calendar = NoCalendar
  /\ limiter = NoLimiter
  /\ accounts = {}

\* ------------------------------------------------------ specification
CallNext(c) ==
  \/ RejectInvalid(c)
  \/ ResolveUser(c)
  \/ SaveRaw(c)
  \/ CheckDuplicate(c)
  \/ InsertEmail(c)
  \/ GetThread(c)
  \/ InsertThread(c)
  \/ SelectMaxPosition(c)
  \/ FlushThread(c)
  \/ Commit(c)
  \/ Finish(c)
  \/ Except(c)

RunNext(c) ==
  \/ GetThreadContent(c)
  \/ BeginProcessing(c)
  \/ \E a \in Agents, o \in {"ok", "raise"} : AgentFinish(c, a, o)
  \/ Join(c)
  \/ Finalize(c)

Next == \E c \in 1..NumCalls : CallNext(c) \/ RunNext(c)

Spec == Init /\ [][Next]_vars

\* The arrival of two payloads, up to the thread key of each.
EnvelopeNext == \E c \in 1..2 : ResolveUserOfEnvelope(c)

EnvelopeSpec == InitEnvelopes /\ [][EnvelopeNext]_vars

\* Emails stored without a thread, then the migration.
MigrateNext ==
  \/ \E c \in 1..2 : StoreWithoutThread(c)
  \/ MigrateExistingEmailsToThreads

MigrateSpec == InitEnvelopes /\ [][MigrateNext]_vars

\* A list request from arrival to response.
ListNext ==
  \/ ValidateRequest
  \/ GetEmailsWithPaginationCall
  \/ PaginatedSuccess

ListSpec == InitList /\ [][ListNext]_vars

\* A header list from arrival to the extracted identifier.
ScanNext ==
  \/ ExtractIdentifier
  \/ EmailWebhookService_ExtractIdentifier

ScanSpec == InitScan /\ [][ScanNext]_vars

\* asyncio runs every ready task: a webhook call or an extraction task
\* that can take a step eventually takes it, and the agent capabilities
\* return or raise in finite time.
\* The ingestion pipeline on its own: the extraction tasks the calls spawn
\* are scheduled but have not run yet.
IngestNext == \E c \in 1..NumIngestCalls : CallNext(c)

IngestSpec == InitIngest /\ [][IngestNext]_vars

ThreadCallNext(c) ==
  \/ ResolveUserOfEmail(c)
  \/ SaveRaw(c)
  \/ CheckDuplicate(c)
  \/ InsertEmail(c)
  \/ GetThread(c)
  \/ InsertThread(c)
  \/ SelectMaxPosition(c)
  \/ FlushThread(c)
  \/ Commit(c)
  \/ Finish(c)
  \/ Except(c)

\* The ingestion pipeline on payloads whose subject and participants are
\* spelled out.
ThreadNext == \E c \in 1..NumThreadCalls : ThreadCallNext(c)

ThreadSpec == InitThread /\ [][ThreadNext]_vars

\* The ingestion pipeline on emails and their replies, in any order of
\* arrival.
ReplyNext ==
  \E c \in 1..NumReplyCalls :
    \/ ResolveUserOfReply(c)
    \/ SaveRaw(c)
    \/ CheckDuplicate(c)
    \/ InsertEmail(c)
    \/ GetThread(c)
    \/ InsertThread(c)
    \/ SelectMaxPosition(c)
    \/ FlushThread(c)
    \/ Commit(c)
    \/ Finish(c)
    \/ Except(c)

ReplySpec == InitReply /\ [][ReplyNext]_vars

\* The create_event calls of a calendar agent run.
CalendarNext ==
  \/ ToolCalled
  \/ CreateEvent

CalendarSpec == Init /\ [][CalendarNext]_vars

\* Webhook calls up to the point where the owning user is known.
UserNext ==
  \E c \in 1..NumUserCalls :
    \/ ProcessUserFromWebhook(c)
    \/ GetByEmail(c)
    \/ CreateUser(c)
    \/ SetApiKey(c)
    \/ CommitUser(c)
    \/ AfterUser(c)

UserSpec == InitUsers /\ [][UserNext]_vars

\* Requests with either API key as the clock runs.
LimiterNext ==
  \/ Tick
  \/ \E k \in ApiKeys : IsAllowed(k)

LimiterSpec == Init /\ [][LimiterNext]_vars

FaultRunNext(c) ==
  \/ RunNext(c)
  \/ ContentReadFails(c)
  \/ BeginProcessingWriteFails(c)
  \/ FinalizeWriteFails(c)

\* The full system when the sessions of the extraction tasks may fail.
FaultNext == \E c \in 1..NumCalls : CallNext(c) \/ FaultRunNext(c)

FaultSpec == Init /\ [][FaultNext]_vars

FairSpec ==
  Spec /\ \A c \in 1..NumCalls : WF_vars(CallNext(c)) /\ WF_vars(RunNext(c))


\* ------------------------------------------------------------ claims
FinalStatuses == {"PROCESSED", "FAILED"}

\* The agents of run c whose capability raised.
RaisedAgents(c) == {a \in Agents : run[c].agent[a] = "raise"}

\* C1: in every committed state no two Email rows share a message_id and
\* no two share an email_identifier, whatever the interleaving of webhook
\* calls and retries.
C1_UniqueIdentifiers ==
  \A e1 \in DOMAIN emails : \A e2 \in DOMAIN emails :
    e1 # e2 => /\ emails[e1].mid # emails[e2].mid
               /\ emails[e1].ident # emails[e2].ident

\* A call whose duplicate check saw nothing lost the race for the unique
\* identifier to a concurrent call, and the conflicting row is stored.
C1_Witness ==
  \E c \in Calls :
    /\ call[c].outcome = "raised"
    /\ call[c].matched = {}
    /\ \E e \in DOMAIN emails :
         emails[e].ident = call[c].p.ident /\ emails[e].mid # call[c].p.mid

\* C2: a call whose MessageID is that of a stored Email completes without
\* error and its result reports duplicate = true with the stored Email's id.
C2_DuplicateReported ==
  \A c \in Calls :
    (call[c].pc = "done" /\ call[c].sameMid # {}) =>
      /\ call[c].outcome = "returned"
      /\ call[c].res_dup
      /\ call[c].res_email \in call[c].sameMid

\* C3: a payload whose MessageID is new but whose derived identifier is
\* that of a stored Email creates no Email row and gets the stored Email
\* back.
C3_CrossIdentifierDuplicate ==
  \A c \in Calls :
    (call[c].sameMid = {} /\ call[c].sameIdent # {}) =>
      /\ c \notin DOMAIN emails
      /\ ~call[c].txEmail
      /\ call[c].pc \in {"finish", "done"}
      /\ call[c].pc = "done" =>
           /\ call[c].outcome = "returned"
           /\ call[c].res_email \in call[c].sameIdent
           /\ call[c].res_mid = emails[call[c].res_email].mid

\* A call with a new MessageID and a stored identifier has returned.
C3_Witness ==
  \E c \in Calls :
    /\ call[c].pc = "done"
    /\ call[c].sameMid = {}
    /\ call[c].sameIdent # {}
    /\ call[c].res_mid # call[c].p.mid

\* C4: once the duplicate check has found an existing Email, neither the
\* call nor anything it starts writes again: Email and thread rows, and
\* with them the existing Email's actionables status, stay as they are.
C4_NoWritesOnDuplicate ==
  [][\A c \in Calls :
       (call[c].dup # 0 /\ (call'[c] # call[c] \/ run'[c] # run[c]))
         => (emails' = emails /\ threads' = threads /\ raws' = raws)]_vars

\* C5: when at least one agent fails, the run ends with status FAILED and
\* an error message that names exactly the failed sub-domains.
C5_FailedNamesFailedAgents ==
  \A c \in Calls :
    (run[c].pc = "done" /\ run[c].orch = "ok" /\ RaisedAgents(c) # {}) =>
      /\ emails[run[c].email].status = "FAILED"
      /\ emails[run[c].email].error = ErrorMessage(RaisedAgents(c))

C7_OrchestratorFailureRecorded ==
  \A c \in Calls :
    (run[c].pc = "done" /\ run[c].orch = "failed") =>
      emails[run[c].email].status = "FAILED"

AllowedStatusStep(a, b) ==
  \/ a = b
  \/ <<a, b>> \in {<<"PENDING", "PROCESSING">>,
                   <<"PROCESSING", "PROCESSED">>,
                   <<"PROCESSING", "FAILED">>}

\* C8: an email's actionables status only moves PENDING -> PROCESSING ->
\* PROCESSED or FAILED, and never leaves PROCESSED or FAILED.
C8_StatusTransitions ==
  [][\A e \in DOMAIN emails :
       AllowedStatusStep(emails[e].status, emails'[e].status)]_vars

\* C9: when run_all_agents returns, all three tasks have finished and the
\* aggregate has exactly the slots calendar, notes and shopping, each
\* holding the result of its own agent: success, or a failure with that
\* agent's error.
C9_IsolatedAgents ==
  \A c \in Calls :
    (run[c].pc \in {"final", "done"} /\ run[c].orch = "ok") =>
      /\ DOMAIN run[c].results = Agents
      /\ \A a \in Agents :
           /\ run[c].agent[a] # "pending"
           /\ run[c].results[a].kind = "dict"
           /\ run[c].results[a].success = (run[c].agent[a] = "ok")
           /\ run[c].agent[a] = "raise" => run[c].results[a].error = a

\* The gather has returned after exactly one agent raised.
C9_Witness ==
  \E c \in Calls :
    /\ run[c].pc = "final"
    /\ run[c].orch = "ok"
    /\ Cardinality(RaisedAgents(c)) = 1
    /\ \E a \in Agents : run[c].results[a].success

\* C10: in every committed state a thread's email_count is the number of
\* Email rows that point at it.
C10_CountMatchesEmails ==
  \A t \in DOMAIN threads :
    threads[t].email_count =
      Cardinality({e \in DOMAIN emails : emails[e].thread = t})

\* C11: the thread_position values of the N emails of a thread are exactly
\* 0..N-1, without duplicates or gaps, and grow in insertion order.
C11_ContiguousPositions ==
  \A t \in DOMAIN threads :
    /\ {emails[e].pos : e \in ThreadEmails(t)} = 0..(Cardinality(ThreadEmails(t)) - 1)
    /\ \A e1 \in ThreadEmails(t) : \A e2 \in ThreadEmails(t) :
         e1 < e2 => emails[e1].pos < emails[e2].pos

\* The participant set of the email that call c carried.
ParticipantsOf(c) == Participants(call[c].p.from, call[c].p.to, call[c].p.cc)

\* A subject without its letter case and surrounding whitespace.
Canon(s) == LowerStr(Strip(s))

HasPrefix(s) == \E i \in 1..Len(Prefixes) : StartsWith(s, Prefixes[i])

\* long is short with one more reply/forward prefix in front.
OnePrefixMore(short, long) ==
  HasPrefix(Canon(long)) /\ Strip(Tail(Canon(long))) = Canon(short)

DifferByOnePrefix(s1, s2) ==
  \/ Canon(s1) = Canon(s2)
  \/ OnePrefixMore(s1, s2)
  \/ OnePrefixMore(s2, s1)

\* As DifferByOnePrefix, where the subject without the additional prefix
\* does not start with a prefix itself.
DifferByOnePrefixOfPlain(s1, s2) ==
  \/ Canon(s1) = Canon(s2)
  \/ OnePrefixMore(s1, s2) /\ ~HasPrefix(Canon(s1))
  \/ OnePrefixMore(s2, s1) /\ ~HasPrefix(Canon(s2))

\* C12 as stated: two stored emails with equal participant sets whose
\* subjects differ only by one leading reply/forward prefix, letter case
\* or surrounding whitespace are in the same thread.
C12_SameThreadUpToPrefix ==
  \A e1 \in DOMAIN emails : \A e2 \in DOMAIN emails :
    (/\ ParticipantsOf(e1) = ParticipantsOf(e2)
     /\ DifferByOnePrefix(call[e1].p.subject, call[e2].p.subject))
      => emails[e1].thread = emails[e2].thread

\* C12 amended: two stored emails with equal participant sets whose
\* subjects differ only by letter case, surrounding whitespace, or one
\* leading prefix in front of a subject that does not start with a prefix
\* itself, are in the same thread.
C12_SameThreadUpToPrefixOfPlain ==
  \A e1 \in DOMAIN emails : \A e2 \in DOMAIN emails :
    (/\ ParticipantsOf(e1) = ParticipantsOf(e2)
     /\ DifferByOnePrefixOfPlain(call[e1].p.subject, call[e2].p.subject))
      => emails[e1].thread = emails[e2].thread

\* "x" and " RE: X " between the same participants are stored in one thread.
C12_Witness ==
  \E e1 \in DOMAIN emails : \E e2 \in DOMAIN emails :
    /\ e1 # e2
    /\ ParticipantsOf(e1) = ParticipantsOf(e2)
    /\ call[e1].p.subject = <<"x">>
    /\ call[e2].p.subject = <<Blank, "RE:", Blank, "X", Blank>>
    /\ emails[e1].thread = emails[e2].thread

\* C13: two stored emails with the same subject and disjoint participant
\* sets are in two distinct threads.
C13_DisjointParticipantsApart ==
  \A e1 \in DOMAIN emails : \A e2 \in DOMAIN emails :
    (/\ call[e1].p.subject = call[e2].p.subject
     /\ ParticipantsOf(e1) \cap ParticipantsOf(e2) = {})
      => emails[e1].thread # emails[e2].thread

\* Two emails with one subject and disjoint participant sets are stored.
C13_Witness ==
  \E e1 \in DOMAIN emails : \E e2 \in DOMAIN emails :
    /\ call[e1].p.subject = call[e2].p.subject
    /\ ParticipantsOf(e1) \cap ParticipantsOf(e2) = {}
    /\ emails[e1].thread \in DOMAIN threads
    /\ emails[e2].thread \in DOMAIN threads

\* Call c carries an email that no other call of the behaviour carries:
\* its MessageID and its header identifier are its own.
NewEmail(c) ==
  /\ c \in Arrived
  /\ \A d \in Arrived \ {c} :
       call[d].p.mid # call[c].p.mid /\ call[d].p.ident # call[c].p.ident

\* C14: when two calls for new emails with the same thread key have both
\* ended, exactly one thread with that key exists and both emails are
\* stored and assigned to it.
C14_ConcurrentThreadCreation ==
  \A c1 \in Calls : \A c2 \in Calls \ {c1} :
    (/\ NewEmail(c1) /\ NewEmail(c2)
     /\ call[c1].pc = "done" /\ call[c2].pc = "done"
     /\ call[c1].p.key = call[c2].p.key)
      => /\ Cardinality({t \in DOMAIN threads : threads[t].key = call[c1].p.key}) = 1
         /\ c1 \in DOMAIN emails /\ c2 \in DOMAIN emails
         /\ emails[c1].thread = emails[c2].thread
         /\ emails[c1].thread \in DOMAIN threads

\* C15: a call whose payload fails validation raises the validation error
\* and neither creates nor changes a RawEmail, Email, User or thread row.
C15_InvalidPersistsNothing ==
  /\ [](\A c \in Calls :
          call[c].error = "ValueError" =>
            /\ call[c].outcome = "raised"
            /\ c \notin DOMAIN raws
            /\ c \notin DOMAIN emails
            /\ c \notin DOMAIN threads
            /\ run[c].pc = "none")
  /\ [][\A c \in Calls :
          (call[c].pc = "idle" /\ call'[c].error = "ValueError")
            => UNCHANGED <<users, raws, emails, threads>>]_vars

\* An invalid payload was rejected after an earlier email had been stored.
C15_Witness ==
  \E c \in Calls :
    /\ call[c].error = "ValueError"
    /\ call[c].pc = "done"
    /\ emails # <<>>

\* C16: a call that passed validation and user resolution inserts its
\* RawEmail with status PENDING before the duplicate check runs, for a
\* duplicate as for a new email, and the row stays whatever happens later.
C16_RawSavedFirst ==
  /\ [](\A c \in Calls :
          (c \in Arrived /\ call[c].pc # "save_raw") => c \in DOMAIN raws)
  /\ [](\A c \in Calls :
          call[c].pc = "check_duplicate" => raws[c] = "PENDING")
  /\ [][\A c \in Calls :
          (call[c].pc = "save_raw" /\ call'[c].pc # "save_raw")
            => (c \notin DOMAIN raws /\ raws' = raws @@ (c :> "PENDING"))]_vars
  /\ [][DOMAIN raws \subseteq DOMAIN raws']_vars

\* A call answered from the duplicate check and a call that raised both
\* left their RawEmail behind.
C16_Witness ==
  \E c \in Calls : \E d \in Calls :
    /\ call[c].pc = "done" /\ call[c].dup # 0 /\ c \in DOMAIN raws
    /\ call[d].pc = "done" /\ call[d].outcome = "raised" /\ d \in DOMAIN raws

\* C17: when the structured save of a new email raised, the call has
\* raised, its RawEmail is FAILED and nothing the save wrote is stored.
C17_FailedSaveMarksRaw ==
  \A c \in Calls :
    (/\ call[c].pc = "done"
     /\ call[c].outcome = "raised"
     /\ call[c].error \in {"IntegrityError", "PendingRollbackError"})
      => /\ raws[c] = "FAILED"
         /\ c \notin DOMAIN emails
         /\ c \notin DOMAIN threads

\* C18: the call returns at the moment the extraction task is created,
\* before the task takes a step; no step of an extraction task changes
\* any call, and the result of a call that has ended never changes.
C18_FireAndForget ==
  /\ [][\A c \in Calls :
          (call[c].pc # "done" /\ call'[c].pc = "done"
             /\ call'[c].outcome = "returned")
            => (run[c].pc = "none" /\ run'[c].pc = "scheduled")]_vars
  /\ [][(\E c \in Calls : run[c].pc # "none" /\ run'[c] # run[c])
            => call' = call]_vars
  /\ [][\A c \in Calls : call[c].pc = "done" => call'[c] = call[c]]_vars

\* A call has returned and keeps its result although an agent of its
\* task raised and the task's final status update failed.
C18_Witness ==
  \E c \in Calls :
    /\ call[c].outcome = "returned"
    /\ call[c].res_email = run[c].email
    /\ run[c].pc = "done"
    /\ run[c].lost
    /\ RaisedAgents(c) # {}
    /\ emails[run[c].email].status = "PROCESSING"

\* C19: an extraction task exists only for a call that returned, its
\* Email row is committed from the moment the task is created, so also
\* when the task reads the thread content; a call that raised has
\* created no task.
C19_TriggerAfterCommit ==
  \A c \in Calls :
    /\ run[c].pc # "none" =>
         /\ call[c].outcome = "returned"
         /\ run[c].email \in DOMAIN emails
         /\ run[c].content \in {"none", "thread"}
    /\ call[c].outcome = "raised" => run[c].pc = "none"

\* The task of a call that stored a new email has read the thread
\* content, and another call has raised.
C19_Witness ==
  \E c \in Calls : \E d \in Calls :
    /\ run[c].pc = "start"
    /\ run[c].email = c
    /\ run[c].content = "thread"
    /\ call[d].outcome = "raised"
    /\ call[d].error # "ValueError"

\* Everything the retrieval operations return to user u: for each
\* operation the arguments that give a result other than None or the
\* empty list, with that result.
Retrieved(u) ==
  [list     |-> GetEmailsWithPagination(u),
   byId     |-> {<<e, GetEmailById(e, u)>> : e \in UserEmails(u)},
   ofEmail  |-> {<<e, GetEmailThread(e, u)>> : e \in UserEmails(u)},
   thread   |-> {<<t, GetThreadById(t, u)>> :
                   t \in {x \in DOMAIN threads : GetThreadById(x, u) # <<>>}},
   ofThread |-> {<<t, GetEmailsByThreadId(t, u)>> :
                   t \in {x \in DOMAIN threads : GetEmailsByThreadId(x, u) # {}}}]

\* The ids of the Emails that appear in what u gets back.
RetrievedEmails(u) ==
  {x.id : x \in GetEmailsWithPagination(u)}
    \cup {e \in DOMAIN emails : GetEmailById(e, u) # <<>>}
    \cup UNION {{x.id : x \in GetEmailThread(e, u)} : e \in DOMAIN emails}
    \cup UNION {{x.id : x \in GetEmailsByThreadId(t, u)} : t \in DOMAIN threads}
    \cup UNION {IF GetThreadById(t, u) = <<>> THEN {}
                 ELSE GetThreadById(t, u).emails : t \in DOMAIN threads}

\* C20: what user u gets back holds only Emails of u, and a step of a
\* webhook call for another user leaves it as it was.
C20_UserIsolation ==
  /\ [](\A u \in Recipients : \A e \in RetrievedEmails(u) : emails[e].user = u)
  /\ [][\A u \in Recipients :
          (\A d \in Calls : call'[d] # call[d] => call'[d].p.rcpt # u)
            => Retrieved(u)' = Retrieved(u)]_vars

C22_SortAllowList ==
  listing.pc = "done" =>
    /\ (\/ listing.via = "api" /\ listing.sort_by \notin AllowedFields
        \/ listing.sort_by \notin AllowedColumns)
          => \/ listing.error = "ValidationError"
             \/ listing.error = "-" /\ listing.sort_column = "sent_at"
    /\ listing.sort_column # "-" => listing.sort_column \in AllowedColumns

\* A direct call with an attribute of Email outside the allow-list has
\* been sorted by sent_at, or such a request was rejected by the model.
C22_Witness ==
  /\ listing.pc = "done"
  /\ listing.sort_by = "user_id"
  /\ listing.via = "service"
  /\ listing.sort_column = "sent_at"

\* Smallest k with k * d >= n.
CeilDiv(n, d) == CHOOSE k \in 0..n : k * d >= n /\ (k = 0 \/ (k - 1) * d < n)

\* C23: the pagination block of a response has
\* total_pages = ceil(total_items / limit), has_next = (page < total_pages)
\* and has_previous = (page > 1).
C23_Pagination ==
  listing.pagination # <<>> =>
    LET pi == listing.pagination
    IN /\ pi.page >= 1 /\ pi.limit >= 1 /\ pi.total_items >= 0
       /\ pi.page = listing.page /\ pi.limit = listing.limit
       /\ pi.total_items = listing.total_count
       /\ pi.total_pages = CeilDiv(pi.total_items, pi.limit)
       /\ pi.has_next = (pi.page < pi.total_pages)
       /\ pi.has_previous = (pi.page > 1)

\* A response whose last page is partly filled and is not the page asked
\* for.
C23_Witness ==
  /\ listing.pagination # <<>>
  /\ listing.pagination.total_items = 5
  /\ listing.pagination.limit = 2
  /\ listing.pagination.page = 2
  /\ listing.pagination.total_pages = 3
  /\ listing.pagination.has_next
  /\ listing.pagination.has_previous

\* The highest-priority header name that occurs in the list with a value,
\* or "-" when none does.
HighestPriorityPresent(headers) ==
  LET present == {k \in 1..Len(PriorityHeaders) :
                    Matching(headers, {PriorityHeaders[k]}) # {}}
  IN IF present = {} THEN "-"
     ELSE PriorityHeaders[CHOOSE k \in present : \A j \in present : k <= j]

\* C24: extract_email_identifier returns the (stripped) value of a header
\* of the highest-priority name that is present with a value, wherever
\* the headers stand in the list, and the generated identifier when no
\* such header is present.
C24_PriorityNotPosition ==
  scan.pc = "done" =>
    LET top == HighestPriorityPresent(scan.headers)
    IN IF top = "-"
         THEN scan.identifier = GeneratedId
         ELSE \E i \in Matching(scan.headers, {top}) :
                scan.identifier = Strip(scan.headers[i].Value)

Appears(c) == c \notin DOMAIN emails /\ c \in DOMAIN emails'

C27_CommittedEmailInThread ==
  \A c \in Calls :
    (call[c].outcome = "returned" /\ call[c].dup = 0) =>
      /\ c \in DOMAIN emails
      /\ emails[c].thread \in DOMAIN threads
      /\ Cardinality(ThreadEmails(emails[c].thread))
           <= threads[emails[c].thread].email_count

\* C28: the thread text built for an extraction task holds only Emails of
\* the user who owns the task's email.
C28_ThreadContentOfOwner ==
  \A c \in Calls :
    \A e \in run[c].messages :
      emails[e].user = emails[run[c].email].user

\* C29: once a call has returned or raised, the RawEmail it created is
\* PROCESSED or FAILED, also when the call was answered as a duplicate.
C29_RawEmailSettled ==
  \A c \in Calls :
    (call[c].pc = "done" /\ c \in DOMAIN raws) =>
      raws[c] \in {"PROCESSED", "FAILED"}

\* A subject trimmed, in lower case and without its first reply/forward
\* prefix, if it starts with one; further prefixes stay.
FirstPrefixStripped(s) ==
  IF HasPrefix(Canon(s)) THEN Strip(Tail(Canon(s))) ELSE Canon(s)

\* C30: the normalized subject inside a thread key is the subject with at
\* most one leading reply/forward prefix removed: of two or more leading
\* prefixes only the first is stripped.
C30_AtMostOnePrefix ==
  \A c \in Arrived :
    call[c].p.key =
      Md5(FirstPrefixStripped(call[c].p.subject) \o <<":">>
            \o JoinColon(Sorted(ParticipantsOf(c))))

\* C31: create_or_get_thread on a key that has a thread hands back that
\* thread with its committed values, creating and changing no row; on a
\* key without a thread its INSERT makes one thread object with
\* email_count = 0, which is committed as one row carrying the caller's
\* summary; no key ever has two threads, and no step changes the key or
\* the summary of an existing thread.
C31_CreateOrGetFrame ==
  /\ [](\A t1 \in DOMAIN threads : \A t2 \in DOMAIN threads :
          threads[t1].key = threads[t2].key => t1 = t2)
  /\ [][\A c \in Calls :
          /\ (call[c].pc = "get_thread" /\ call'[c].pc # "get_thread") =>
                /\ threads' = threads
                /\ IF \E t \in DOMAIN threads : threads[t].key = call[c].p.key
                     THEN /\ call'[c].thr \in DOMAIN threads
                          /\ threads[call'[c].thr].key = call[c].p.key
                          /\ call'[c].cnt = threads[call'[c].thr].email_count
                          /\ call'[c].first = threads[call'[c].thr].first
                          /\ call'[c].last = threads[call'[c].thr].last
                          /\ ~call'[c].txThread
                     ELSE call'[c].pc = "insert_thread"
          /\ (call[c].pc = "insert_thread" /\ call'[c].txThread) =>
                /\ threads' = threads
                /\ call'[c].thr = c /\ call'[c].thr \notin DOMAIN threads
                /\ call'[c].cnt = 0
                /\ call'[c].first = 0 /\ call'[c].last = 0
          /\ (c \notin DOMAIN threads /\ c \in DOMAIN threads') =>
                /\ call[c].txThread
                /\ threads'[c].key = call[c].p.key
                /\ threads'[c].summary = c
                /\ DOMAIN threads' = DOMAIN threads \cup {c}
          /\ \A t \in DOMAIN threads :
                /\ threads'[t].key = threads[t].key
                /\ threads'[t].summary = threads[t].summary]_vars

\* One call has been handed the thread that another call created, and a
\* third has inserted a thread of its own.
C31_Witness ==
  \E c, d \in Calls :
    /\ call[c].pc = "max_position"
    /\ ~call[c].txThread
    /\ call[c].thr \in DOMAIN threads
    /\ call[c].thr # c
    /\ call[d].pc = "max_position"
    /\ call[d].txThread

\* C32: a thread's first_email_id is the email added when the thread was
\* created and no later add changes it; its last_email_id is the email of
\* the add committed most recently, and changes with no other step.
C32_FirstAndLast ==
  /\ [](\A t \in DOMAIN threads : threads[t].first = t)
  /\ [][/\ \A c \in Calls : Appears(c) =>
             threads'[emails'[c].thread].last = c
        /\ \A t \in DOMAIN threads :
             /\ threads'[t].first = threads[t].first
             /\ threads'[t].last # threads[t].last =>
                   \E c \in Calls : Appears(c) /\ emails'[c].thread = t]_vars

\* Three emails have been added to one thread.
C32_Witness ==
  \E t \in DOMAIN threads :
    /\ Cardinality(ThreadEmails(t)) = 3
    /\ threads[t].first = t
    /\ threads[t].last # t

\* {From} \cup To \cup Cc of a payload, read off the payload itself.
FromToCc(p) ==
  {p.from} \cup {p.to[i] : i \in 1..Len(p.to)} \cup {p.cc[i] : i \in 1..Len(p.cc)}

\* C33: two emails with the same normalized subject and the same set
\* {From} \cup To \cup Cc get the same thread key, whatever their Bcc
\* lists, the repeats and the order of their recipients, and whichever
\* participant is the sender.
C33_KeyOfSubjectAndParticipants ==
  \A c \in Arrived : \A d \in Arrived :
    (/\ NormalizeSubject(call[c].p.subject) = NormalizeSubject(call[d].p.subject)
     /\ FromToCc(call[c].p) = FromToCc(call[d].p))
      => call[c].p.key = call[d].p.key

\* An email from a to b with a blind copy, and the reply from b to a with
\* a copy to b, in another spelling of the subject, have the same key.
C33_Witness ==
  /\ Arrived = {1, 2}
  /\ call[1].p.from = "a" /\ call[1].p.to = <<"b">>
  /\ call[1].p.bcc = <<"b">> /\ call[1].p.cc = <<>>
  /\ call[2].p.from = "b" /\ call[2].p.to = <<"a", "a">>
  /\ call[2].p.cc = <<"b">> /\ call[2].p.bcc = <<>>
  /\ call[1].p.subject = <<"re:", Blank, "x">>
  /\ call[2].p.subject = <<Blank, "RE:", Blank, "X", Blank>>
  /\ call[1].p.key = call[2].p.key

\* C34: two emails get the same pre-hash string only if their normalized
\* subjects are equal and their participant sets are equal.
C34_UnambiguousKey ==
  \A c \in Arrived : \A d \in Arrived :
    call[c].p.key = call[d].p.key =>
      /\ NormalizeSubject(call[c].p.subject) = NormalizeSubject(call[d].p.subject)
      /\ FromToCc(call[c].p) = FromToCc(call[d].p)

\* C39: the thread an email is migrated to has the key that live
\* ingestion computes for an email with the same subject and recipients.
C39_MigrationKeyIsLiveKey ==
  \A e \in DOMAIN emails :
    emails[e].thread # 0 =>
      threads[emails[e].thread].key =
        GenerateThreadId(emails[e].subject, ThreadParticipants(emails[e]))

\* C35: in every committed state an Email has a parent_email_id exactly
\* when an Email with its parent_email_identifier as email_identifier is
\* stored, and the id is that Email's, whichever of the two arrived first.
C35_ParentLinked ==
  \A e \in DOMAIN emails :
    /\ emails[e].parent_email_id # 0
         <=> \E x \in DOMAIN emails :
               emails[x].ident = emails[e].parent_email_identifier
    /\ emails[e].parent_email_id # 0
         => /\ emails[e].parent_email_id \in DOMAIN emails
            /\ emails[emails[e].parent_email_id].ident
                 = emails[e].parent_email_identifier

\* A parent_email_id that is set is the id of the Email the reply names.
C35_LinkedWhenParentFirst ==
  \A e \in DOMAIN emails :
    emails[e].parent_email_id # 0
      => /\ emails[e].parent_email_id \in DOMAIN emails
         /\ emails[emails[e].parent_email_id].ident
              = emails[e].parent_email_identifier

\* C36: a create_event call none of whose writes fails returns, and a call
\* that returns has persisted exactly one CalendarEvent with the run's
\* email_id, one non-organizer attendee row per listed attendee and one
\* organizer row exactly when an organizer was given; a call one of whose
\* writes fails persists no row and raises.
C36_CreateEventAllOrNothing ==
  [][calendar.pc = "called" /\ calendar'.pc = "done"
       => LET d    == calendar.data
              newE == calendar'.events \ calendar.events
              newA == calendar'.attendees \ calendar.attendees IN
            /\ d.fails \notin WritesOf(d) => calendar'.outcome = "returned"
            /\ calendar'.outcome = "returned"
                 => /\ Cardinality(newE) = 1
                    /\ \A e \in newE : e.email_id = d.email_id
                    /\ \A a \in newA : \A e \in newE : a.event_id = e.id
                    /\ Cardinality({a \in newA : ~a.is_organizer})
                         = Len(d.attendees)
                    /\ Cardinality({a \in newA : a.is_organizer})
                         = IF d.organizer THEN 1 ELSE 0
            /\ d.fails \in WritesOf(d)
                 => /\ newE = {} /\ newA = {}
                    /\ calendar'.outcome = "raised"]_vars

\* A create_event call that does not return leaves the tables as they were
\* and raises.
C36_NothingWhenRaised ==
  [][calendar.pc = "called" /\ calendar'.pc = "done"
       /\ calendar'.outcome # "returned"
       => /\ calendar'.events = calendar.events
          /\ calendar'.attendees = calendar.attendees
          /\ calendar'.outcome = "raised"]_vars

\* Requests of key k that is_allowed let pass in the window_seconds
\* seconds that end with second t.
RECURSIVE AdmittedBetween(_, _, _)
AdmittedBetween(k, lo, hi) ==
  IF lo > hi THEN 0
  ELSE limiter.admitted[k][lo] + AdmittedBetween(k, lo + 1, hi)

AdmittedInWindow(k, t) ==
  AdmittedBetween(k, IF t - WindowSeconds + 1 < 0 THEN 0
                     ELSE t - WindowSeconds + 1, t)

\* C37: per API key at most max_requests admitted requests lie in any
\* window of window_seconds; a request is admitted exactly when fewer
\* than max_requests admitted requests of its own key lie in the window
\* that ends now, so rejected requests and other keys do not count; a
\* rejected request is not recorded, the stored timestamps are all inside
\* the window, and the lists of the other keys are left alone.
C37_SlidingWindowPerKey ==
  /\ [](\A k \in ApiKeys : \A t \in 0..MaxTime :
          AdmittedInWindow(k, t) <= MaxRequests)
  /\ [][limiter' # limiter /\ limiter'.now = limiter.now
         => LET k == limiter'.key IN
              /\ limiter'.allowed
                   <=> AdmittedInWindow(k, limiter.now) < MaxRequests
              /\ ~limiter'.allowed
                   => /\ limiter'.admitted = limiter.admitted
                      /\ limiter'.requests[k]
                           = Prune(limiter.requests[k], limiter.now)
              /\ \A i \in 1..Len(limiter'.requests[k]) :
                   limiter'.requests[k][i] > limiter.now - WindowSeconds
              /\ \A j \in ApiKeys \ {k} :
                   /\ limiter'.requests[j] = limiter.requests[j]
                   /\ limiter'.admitted[j] = limiter.admitted[j]]_vars

\* A request of k1 is rejected in a second in which k2 is admitted, and
\* an older request of k1 has left the window.
C37_Witness ==
  /\ limiter.key = "k1" /\ ~limiter.allowed
  /\ limiter.now >= WindowSeconds
  /\ limiter.admitted["k1"][0] > 0
  /\ limiter.admitted["k2"][limiter.now] > 0
  /\ Len(limiter.requests["k2"]) < MaxRequests

\* C38: no two Users have the same lower-cased address and every
\* committed User has an API key; every call with a mailbox hash gets the
\* User of its address, which one call has created and the others reuse.
C38_OneUserPerAddress ==
  /\ \A u, v \in accounts : LowerAddress(u.email) = LowerAddress(v.email) => u = v
  /\ \A u \in accounts : u.api_key
  /\ \A c \in Calls :
       call[c].pc \in {"save_raw", "failed"} /\ call[c].mailbox_hash # ""
         => /\ call[c].outcome = "returned"
            /\ \E u \in accounts :
                 u.id = call[c].user /\ u.email = call[c].email
            /\ \A d \in Calls :
                 call[d].created /\ call[d].email = call[c].email
                   /\ call[c].created
                   => d = c

\* At most one User per lower-cased address, each with an API key, and a
\* call that returns holds the User of its address.
C38_UniqueUsersWithKeys ==
  /\ \A u, v \in accounts : LowerAddress(u.email) = LowerAddress(v.email) => u = v
  /\ \A u \in accounts : u.api_key /\ u.email = LowerAddress(u.email)
  /\ \A c \in Calls :
       call[c].outcome = "returned"
         => \E u \in accounts :
              u.id = call[c].user /\ u.email = call[c].email

\* C40: a call whose MailboxHash is empty gets its user, named by the
\* local part of the recipient address, and goes on to save the raw
\* email.
C40_EmptyMailboxHashIngested ==
  \A c \in Calls :
    call[c].pc \in {"save_raw", "failed"} /\ call[c].mailbox_hash = ""
      => /\ call[c].pc = "save_raw"
         /\ \E u \in accounts :
              u.id = call[c].user /\ u.email = call[c].email
====
